---- MODULE Spec2Model ----
(***************************************************************************)
(* Verification model of the Yahoo Fantasy Sports Go SDK:                  *)
(*   - the HTTP client (makeRequest / refreshAccessToken, tokenMutex),     *)
(*   - the SQL-backed APICache and the cached Get* methods,                *)
(*   - LeagueService.SyncTeamsAndRosters,                                  *)
(*   - TradeService.GenerateSuggestions and the fairness arithmetic.       *)
(* Each subsystem has its own specification over the shared variables;    *)
(* the variables of the other subsystems stay at their initial values.    *)
(***************************************************************************)
EXTENDS Integers, Sequences, FiniteSets, TLC

(***************************************************************************)
(* Bounds                                                                  *)
(***************************************************************************)
\* number of goroutines that call makeRequest on the one Client
NumProcs == 2
\* token strings are 0 (the empty string) and 1..MaxTok
MaxTok == 2
\* results the API can return for one endpoint are 1..MaxVal
MaxVal == 2
\* APICache.Set called directly takes a ttl of 0..MaxTTL hours
MaxTTL == 2

Procs == 1..NumProcs
TokenValues == 0..MaxTok
\* the value of a string read while another goroutine is writing it
Torn == -1
NoProc == 0

Statuses == {"neterr", "200", "401exp", "401", "500"}

VARIABLES
    \* ---- Client (part_006: Client struct) ----
    accessToken,    \* c.accessToken
    refreshToken,   \* c.refreshToken
    tokenMutex,     \* c.tokenMutex: NoProc or the goroutine holding it
    writing,        \* a store to c.accessToken in progress: <<p, v>> or <<>>
    pc,             \* position of each goroutine in makeRequest
    loc             \* locals of each goroutine's makeRequest call

clientVars == <<accessToken, refreshToken, tokenMutex, writing, pc, loc>>

VARIABLES
    \* ---- APICache (part_006: table yahoo_api_cache) ----
    cacheEnabled,   \* c.cacheEnabled
    cacheTable,     \* rows [key, value, left]; left = hours until expires_at
    last,           \* the last cached Get* call: what it found, sent, returned
    hist            \* per key: the last event on it and the value last set

cacheVars == <<cacheEnabled, cacheTable, last, hist>>

VARIABLES
    \* ---- LeagueService.SyncTeamsAndRosters and its tables ----
    sync,           \* position and locals of the running sync call
    dbTeams,        \* table fantasy_teams: rows [id, key, sync]; sync is the
                    \* call that inserted the row, key the Yahoo key
    dbRosters,      \* table fantasy_rosters: rows [id, team, player, key, sync]
    lastSyncedAt,   \* fantasy_leagues.last_synced_at: the sync that set it
    syncHistory,    \* table sync_history: the syncs with a 'success' row
    imp,            \* position and locals of the running ImportLeague call
    dbLeagues       \* table fantasy_leagues: rows [id, key, imp]; imp is the
                    \* call that inserted the row, key the Yahoo league id

importVars == <<imp, dbLeagues>>
syncVars == <<sync, dbTeams, dbRosters, lastSyncedAt, syncHistory, importVars>>

VARIABLES
    \* ---- TradeService / EvaluationService ----
    projections,    \* table player_projections: player id -> fpg
    out,            \* the last call of the trade code and what it returned
    playerProjections
                    \* table player_projections as the valuation writes it:
                    \* rows [player_id, league_id, fpg, z_score,
                    \* overall_rank, scarcity_multiplier]

tradeVars == <<projections, out, playerProjections>>

vars == <<clientVars, cacheVars, syncVars, tradeVars>>

(***************************************************************************)
(* Client.makeRequest and Client.refreshAccessToken                        *)
(***************************************************************************)
InitLoc ==
    [ hdr      |-> 0,        \* bearer token of the request being built
      status   |-> "none",   \* status of the last response
      first    |-> "none",   \* status of the first response
      gets     |-> 0,        \* GETs sent by this call
      refreshes|-> 0,        \* refreshAccessToken calls of this call
      posts    |-> 0,        \* POSTs to the token endpoint
      rerr     |-> FALSE,    \* refreshAccessToken returns an error
      stored   |-> 0,        \* access token this call's refresh stored
      stale    |-> FALSE,    \* another refresh overwrote it before the retry
      result   |-> "none" ]  \* "ok" or "err" once makeRequest returned

\* c.accessToken == "" (line 681)
IsEmpty(tok) == tok = 0

\* A read of c.accessToken by p.  makeRequest reads the field without
\* tokenMutex; while another goroutine is inside the assignment at line 671
\* the read is a data race and may yield the old string, the new string or
\* a mix of the two string headers.
ReadAccess(p) ==
    IF writing # <<>> /\ writing[1] # p
    THEN {accessToken, writing[2], Torn}
    ELSE {accessToken}

\* lines 700-702: StatusUnauthorized and body contains "token_expired"
NeedsRefresh_any401(status) == status \in {"401", "401exp"}
NeedsRefresh_anyError(status) == status \notin {"200", "neterr"}
NeedsRefresh(status) == status = "401exp"

\* sync.Mutex.Lock (line 635) blocks while another goroutine holds it
CanLock_nolock(p) == TRUE
CanLock(p) == tokenMutex = NoProc

SetLoc(p, f) == loc' = [loc EXCEPT ![p] = f]
Goto(p, label) == pc' = [pc EXCEPT ![p] = label]

\* lines 722-727 applied to a response with status st: a status other than
\* 200 is an error; io.ReadAll of a 200 body may still fail
Outcomes(st) == IF st = "200" THEN {"ok", "err"} ELSE {"err"}

\* a goroutine enters makeRequest(ctx, endpoint)
Call(p) ==
    /\ pc[p] = "idle"
    /\ Goto(p, "check")
    /\ UNCHANGED <<accessToken, refreshToken, tokenMutex, writing, loc>>
    /\ UNCHANGED <<cacheVars, syncVars, tradeVars>>

\* lines 681-683
CheckToken(p) ==
    /\ pc[p] = "check"
    /\ \E v \in ReadAccess(p) :
         IF IsEmpty(v)
         THEN /\ SetLoc(p, [loc[p] EXCEPT !.result = "err"])
              /\ Goto(p, "done")
         ELSE /\ Goto(p, "build")
              /\ UNCHANGED loc
    /\ UNCHANGED <<accessToken, refreshToken, tokenMutex, writing>>
    /\ UNCHANGED <<cacheVars, syncVars, tradeVars>>

\* lines 685-692; http.NewRequestWithContext fails on a URL that does not
\* parse (baseURL and endpoint come from the environment and the caller)
BuildRequest(p) ==
    /\ pc[p] = "build"
    /\ \/ /\ SetLoc(p, [loc[p] EXCEPT !.result = "err"])
          /\ Goto(p, "done")
       \/ \E v \in ReadAccess(p) :
            /\ SetLoc(p, [loc[p] EXCEPT !.hdr = v])
            /\ Goto(p, "send")
    /\ UNCHANGED <<accessToken, refreshToken, tokenMutex, writing>>
    /\ UNCHANGED <<cacheVars, syncVars, tradeVars>>

\* lines 694-703: httpClient.Do and the branch on the response; a response
\* that needs no refresh falls through to lines 722-727
Send(p) ==
    /\ pc[p] = "send"
    /\ \E st \in Statuses :
         LET l == [loc[p] EXCEPT !.status = st, !.first = st,
                                 !.gets = @ + 1, !.hdr = 0]
         IN  IF st = "neterr"
             THEN /\ SetLoc(p, [l EXCEPT !.result = "err"])
                  /\ Goto(p, "done")
             ELSE IF NeedsRefresh(st)
             THEN /\ SetLoc(p, [l EXCEPT !.refreshes = @ + 1])
                  /\ Goto(p, "lock")
             ELSE /\ \E r \in Outcomes(st) : SetLoc(p, [l EXCEPT !.result = r])
                  /\ Goto(p, "done")
    /\ UNCHANGED <<accessToken, refreshToken, tokenMutex, writing>>
    /\ UNCHANGED <<cacheVars, syncVars, tradeVars>>

\* lines 635-644: Lock, then the check of c.refreshToken
Lock(p) ==
    /\ pc[p] = "lock"
    /\ CanLock(p)
    /\ tokenMutex' = p
    /\ IF refreshToken = 0
       THEN /\ SetLoc(p, [loc[p] EXCEPT !.rerr = TRUE])
            /\ Goto(p, "unlock")
       ELSE /\ Goto(p, "post")
            /\ UNCHANGED loc
    /\ UNCHANGED <<accessToken, refreshToken, writing>>
    /\ UNCHANGED <<cacheVars, syncVars, tradeVars>>

\* lines 646-669: the POST carrying c.refreshToken, the status check and
\* json.Unmarshal of the body into tokenResponse.  The two fields of a
\* parsed tokenResponse are drawn where they are used (lines 671, 672).
Post(p) ==
    /\ pc[p] = "post"
    /\ \/ /\ SetLoc(p, [loc[p] EXCEPT !.rerr = TRUE, !.posts = @ + 1])
          /\ Goto(p, "unlock")
       \/ /\ SetLoc(p, [loc[p] EXCEPT !.posts = @ + 1])
          /\ Goto(p, "store_access")
    /\ UNCHANGED <<accessToken, refreshToken, tokenMutex, writing>>
    /\ UNCHANGED <<cacheVars, syncVars, tradeVars>>

\* line 671, first half of the two-word string store of
\* tokenResp.AccessToken (any string, the empty one included)
StoreAccessBegin(p) ==
    /\ pc[p] = "store_access"
    /\ \E a \in TokenValues :
         /\ writing' = <<p, a>>
         /\ loc' = [q \in Procs |->
                      IF q = p THEN [loc[p] EXCEPT !.stored = a]
                      ELSE IF pc[q] = "retry_build"
                           THEN [loc[q] EXCEPT !.stale = TRUE, !.stored = 0]
                           ELSE loc[q]]
    /\ Goto(p, "store_access_end")
    /\ UNCHANGED <<accessToken, refreshToken, tokenMutex>>
    /\ UNCHANGED <<cacheVars, syncVars, tradeVars>>

\* line 671, the store is complete
StoreAccessEnd(p) ==
    /\ pc[p] = "store_access_end"
    /\ accessToken' = loc[p].stored
    /\ writing' = <<>>
    /\ Goto(p, "store_refresh")
    /\ UNCHANGED <<refreshToken, tokenMutex, loc>>
    /\ UNCHANGED <<cacheVars, syncVars, tradeVars>>

\* lines 672-674: if tokenResp.RefreshToken != "" { c.refreshToken = ... }
NewRefreshToken_always(r, old) == r
NewRefreshToken(r, old) == IF r # 0 THEN r ELSE old

\* lines 672-677, r is tokenResp.RefreshToken
StoreRefresh(p) ==
    /\ pc[p] = "store_refresh"
    /\ \E r \in TokenValues :
         refreshToken' = NewRefreshToken(r, refreshToken)
    /\ Goto(p, "unlock")
    /\ UNCHANGED <<accessToken, tokenMutex, writing, loc>>
    /\ UNCHANGED <<cacheVars, syncVars, tradeVars>>

\* the deferred Unlock (line 636) and the return into makeRequest (703-705)
Unlock(p) ==
    /\ pc[p] = "unlock"
    /\ tokenMutex' = NoProc
    /\ IF loc[p].rerr
       THEN /\ SetLoc(p, [loc[p] EXCEPT !.result = "err"])
            /\ Goto(p, "done")
       ELSE /\ Goto(p, "retry_build")
            /\ UNCHANGED loc
    /\ UNCHANGED <<accessToken, refreshToken, writing>>
    /\ UNCHANGED <<cacheVars, syncVars, tradeVars>>

\* lines 707-712; the URL is the one that already parsed at line 686, so
\* the error branch of lines 708-710 is not reachable
RetryBuild(p) ==
    /\ pc[p] = "retry_build"
    /\ \E v \in ReadAccess(p) :
            /\ SetLoc(p, [loc[p] EXCEPT !.hdr = v])
            /\ Goto(p, "retry_send")
    /\ UNCHANGED <<accessToken, refreshToken, tokenMutex, writing>>
    /\ UNCHANGED <<cacheVars, syncVars, tradeVars>>

\* lines 714-727: the re-sent GET; its response is not inspected for
\* token_expired again
RetrySend(p) ==
    /\ pc[p] = "retry_send"
    /\ \E st \in Statuses :
         LET l == [loc[p] EXCEPT !.status = st, !.gets = @ + 1,
                                 !.hdr = 0, !.stored = 0, !.stale = FALSE]
         IN  \E r \in Outcomes(st) : SetLoc(p, [l EXCEPT !.result = r])
    /\ Goto(p, "done")
    /\ UNCHANGED <<accessToken, refreshToken, tokenMutex, writing>>
    /\ UNCHANGED <<cacheVars, syncVars, tradeVars>>

\* makeRequest has returned; the goroutine may issue another request
Return(p) ==
    /\ pc[p] = "done"
    /\ Goto(p, "idle")
    /\ SetLoc(p, InitLoc)
    /\ UNCHANGED <<accessToken, refreshToken, tokenMutex, writing>>
    /\ UNCHANGED <<cacheVars, syncVars, tradeVars>>

\* NewClient (lines 533-563): the tokens come from the environment
ClientInit ==
    /\ accessToken \in {0, 1}
    /\ refreshToken \in {0, 1}
    /\ tokenMutex = NoProc
    /\ writing = <<>>
    /\ pc = [p \in Procs |-> "idle"]
    /\ loc = [p \in Procs |-> InitLoc]

ClientNext ==
    \E p \in Procs :
        \/ Call(p) \/ CheckToken(p) \/ BuildRequest(p) \/ Send(p)
        \/ Lock(p) \/ Post(p)
        \/ StoreAccessBegin(p) \/ StoreAccessEnd(p) \/ StoreRefresh(p)
        \/ Unlock(p) \/ RetryBuild(p) \/ RetrySend(p) \/ Return(p)

(***************************************************************************)
(* Claims about the client                                                 *)
(***************************************************************************)
Is401(st) == st \in {"401", "401exp"}
Returned(p) == pc[p] = "done"

\* C1 (as stated): whenever a GET of makeRequest is answered with HTTP 401,
\* the call performs exactly one token refresh and re-sends the request
\* exactly once.
C1_Every401RefreshesAndRetries ==
    \A p \in Procs :
        Returned(p) /\ Is401(loc[p].first) =>
            loc[p].refreshes = 1 /\ loc[p].gets = 2

\* C1 (amended): when the first GET is answered with 401 and a body that
\* contains token_expired, the call makes exactly one refreshAccessToken
\* call and, if it succeeds, re-sends the request exactly once, carrying the
\* access token that refresh stored unless a concurrent refresh has replaced
\* it since; after any other first response, after a failed refresh and
\* after the re-sent request there is no refresh and no further GET.
C1_ExpiredTokenRefreshesAndRetriesOnce ==
    \A p \in Procs :
        /\ Returned(p) /\ loc[p].first = "401exp" =>
              /\ loc[p].refreshes = 1
              /\ loc[p].gets = IF loc[p].rerr THEN 1 ELSE 2
        /\ Returned(p) /\ loc[p].first # "401exp" =>
              /\ loc[p].refreshes = 0
              /\ loc[p].gets <= 1
        /\ pc[p] = "retry_send" =>
              /\ loc[p].refreshes = 1 /\ loc[p].gets = 1
              /\ loc[p].hdr = loc[p].stored \/ loc[p].stale

C1_Witness ==
    \E p \in Procs :
        /\ Returned(p) /\ loc[p].first = "401exp"
        /\ loc[p].gets = 2 /\ loc[p].refreshes = 1 /\ loc[p].result = "ok"

\* the positions of refreshAccessToken between Lock and the deferred Unlock
ExchangePcs == {"post", "store_access", "store_access_end",
                "store_refresh", "unlock"}

\* C2: at most one refreshAccessToken exchange (reading the refresh token,
\* POSTing to the token endpoint, storing the new tokens) is in progress at
\* any time, in every interleaving of concurrent requests.
C2_RefreshSerialized ==
    Cardinality({p \in Procs : pc[p] \in ExchangePcs}) <= 1

C2_Witness ==
    \E p, q \in Procs :
        p # q /\ pc[p] = "store_access_end" /\ pc[q] = "lock"

\* positions whose next step reads, respectively writes, c.accessToken
TokenReadPcs == {"check", "build", "retry_build"}
TokenWritePcs == {"store_access", "store_access_end"}

\* C3: every read and every write of c.accessToken happens while tokenMutex
\* is held by the accessing goroutine, so no read of the access token
\* happens while a concurrent refresh is writing it.
C3_TokenGuardedByMutex ==
    /\ \A p \in Procs : pc[p] \in TokenReadPcs \cup TokenWritePcs => tokenMutex = p
    /\ ~(\E p \in Procs : writing # <<>> /\ writing[1] # p /\ pc[p] \in TokenReadPcs)

\* C4: one makeRequest call sends at most two GETs and performs at most one
\* token refresh; a transport error or a non-401 status on the first GET is
\* returned without a retry, and a 401 on the re-sent request is returned as
\* an error without a second refresh.
C4_NoOtherRetry ==
    \A p \in Procs :
        /\ loc[p].gets <= 2
        /\ loc[p].refreshes <= 1
        /\ Returned(p) /\ loc[p].first \in {"neterr", "200", "500"} =>
              loc[p].gets = 1 /\ loc[p].refreshes = 0
        /\ Returned(p) /\ loc[p].first = "neterr" => loc[p].result = "err"
        /\ Returned(p) /\ loc[p].first = "500" => loc[p].result = "err"
        /\ Returned(p) /\ loc[p].gets = 2 /\ Is401(loc[p].status) =>
              loc[p].result = "err" /\ loc[p].refreshes = 1

C4_Witness ==
    \E p \in Procs :
        /\ Returned(p) /\ loc[p].gets = 2 /\ loc[p].status = "401exp"
        /\ loc[p].result = "err" /\ loc[p].refreshes = 1

(***************************************************************************)
(* APICache and the cached Get* methods                                    *)
(***************************************************************************)
\* time.Duration arguments of c.cache.Set, in hours
TTLUserLeagues == 24
TTLLeagueTeams == 6
TTLTeamRoster == 1

Values == 1..MaxVal
\* a method's result when it returns (nil, err), and before it returned
Failed == 0
NoRes == -1

\* fmt.Sprintf of the cache key (lines 566, 589, 612)
CacheKey(kind, arg) ==
    CASE kind = "leagues" -> <<"user:leagues:", arg>>
      [] kind = "teams"   -> <<"league:", arg, ":teams">>
      [] kind = "roster"  -> <<"team:", arg, ":roster">>

\* the ttl each method passes to Set (lines 583, 606, 629)
KindTTL(kind) ==
    CASE kind = "leagues" -> TTLUserLeagues
      [] kind = "teams"   -> TTLLeagueTeams
      [] kind = "roster"  -> TTLTeamRoster

\* the keys the model uses: one per method
GetKeys == {CacheKey("leagues", "nba"), CacheKey("teams", "l1"),
            CacheKey("roster", "t1")}

\* json.Marshal / json.Unmarshal of a slice of plain structs
JSONMarshal(v) == <<"json", v>>
JSONUnmarshals(s) == Len(s) = 2 /\ s[1] = "json"
JSONUnmarshal(s) == s[2]

RowsOf(tbl, key) == {r \in tbl : r.key = key}

\* time.Now().After(expiresAt) (line 844) and expires_at < datetime('now')
\* (line 872): strictly later than the expiry instant
Expired(row) == row.left < 0

\* the schema's uniqueness constraint on cache_key
CacheKeyUnique == TRUE

\* INSERT OR REPLACE INTO yahoo_api_cache (line 860)
SqlInsertOrReplace(tbl, row) ==
    (IF CacheKeyUnique THEN {r \in tbl : r.key # row.key} ELSE tbl) \cup {row}

\* DELETE FROM yahoo_api_cache WHERE cache_key = ? (line 866)
SqlDeleteKey_noop(tbl, key) == tbl
SqlDeleteKey(tbl, key) == {r \in tbl : r.key # key}

\* DELETE FROM yahoo_api_cache WHERE expires_at < datetime('now') (line 872)
SqlDeleteExpired(tbl) == {r \in tbl : ~Expired(r)}

\* APICache.Delete (lines 865-869): the statement runs or fails
CacheDeleteOutcomes(tbl, key) ==
    { [tbl |-> SqlDeleteKey(tbl, key), err |-> "nil"],
      [tbl |-> tbl, err |-> "dberr"] }

\* APICache.Get (lines 834-850): the query fails, finds no row, finds an
\* expired row (which it deletes, ignoring Delete's error) or finds a value
CacheGetOutcomes(tbl, key) ==
    { [tbl |-> tbl, err |-> "dberr", value |-> <<>>, del |-> "none"] } \cup
    (IF RowsOf(tbl, key) = {}
     THEN { [tbl |-> tbl, err |-> "norows", value |-> <<>>, del |-> "none"] }
     ELSE UNION { IF Expired(r)
                  THEN { [tbl |-> d.tbl, err |-> "expired", value |-> <<>>,
                          del |-> d.err] : d \in CacheDeleteOutcomes(tbl, key) }
                  ELSE { [tbl |-> tbl, err |-> "nil", value |-> r.value,
                          del |-> "none"] }
                : r \in RowsOf(tbl, key) })

\* APICache.Set (lines 852-863): expiresAt = now + ttl
CacheSetOutcomes(tbl, key, v, ttl) ==
    { [tbl |-> SqlInsertOrReplace(tbl, [key |-> key, value |-> JSONMarshal(v),
                                        left |-> ttl]),
       err |-> "nil"],
      [tbl |-> tbl, err |-> "dberr"] }

\* APICache.CleanExpired (lines 871-875)
CacheCleanOutcomes(tbl) ==
    { [tbl |-> SqlDeleteExpired(tbl), err |-> "nil"],
      [tbl |-> tbl, err |-> "dberr"] }

\* fetchLeagues / fetchTeams / fetchRoster (lines 730-832) through
\* makeRequest: without an access token no request is sent (line 681);
\* otherwise the request is sent and yields a result or an error
FetchOutcomes ==
    IF IsEmpty(accessToken)
    THEN { [http |-> 0, res |-> Failed] }
    ELSE { [http |-> 1, res |-> v] : v \in Values \cup {Failed} }

NoCall == [op |-> "none", kind |-> "none", key |-> <<>>, pre |-> {},
           get |-> "none", http |-> 0, res |-> NoRes]

\* if c.cacheEnabled { c.cache.Get(cacheKey) ... } (lines 568, 591, 614):
\* the cache is consulted whatever the tokens are
UseCache_withToken == cacheEnabled /\ ~IsEmpty(accessToken)
UseCache == cacheEnabled

\* GetUserLeagues / GetLeagueTeams / GetTeamRoster (lines 565-632): the
\* table the call leaves and what the call found, sent and returned
CachedGet(op, kind, arg) ==
    LET key  == CacheKey(kind, arg)
        call == [op |-> op, kind |-> kind, key |-> key,
                 pre |-> RowsOf(cacheTable, key), get |-> "none",
                 http |-> 0, res |-> NoRes]
        gets == IF UseCache
                THEN CacheGetOutcomes(cacheTable, key)
                ELSE { [tbl |-> cacheTable, err |-> "disabled",
                        value |-> <<>>, del |-> "none"] }
        Fetched(g, f) ==
            LET c == [call EXCEPT !.get = g.err, !.http = f.http, !.res = f.res]
            IN  IF f.res = Failed \/ ~cacheEnabled
                THEN { [tbl |-> g.tbl, call |-> c] }
                ELSE { [tbl |-> st.tbl, call |-> c] :
                       st \in CacheSetOutcomes(g.tbl, key, f.res, KindTTL(kind)) }
    IN  UNION { IF g.err = "nil" /\ JSONUnmarshals(g.value)
                THEN { [tbl |-> g.tbl,
                        call |-> [call EXCEPT !.get = g.err,
                                              !.res = JSONUnmarshal(g.value)]] }
                ELSE UNION { Fetched(g, f) : f \in FetchOutcomes }
              : g \in gets }

GetUserLeagues ==
    /\ \E r \in CachedGet("GetUserLeagues", "leagues", "nba") :
         cacheTable' = r.tbl /\ last' = r.call
    /\ UNCHANGED <<cacheEnabled, hist, clientVars, syncVars, tradeVars>>

GetLeagueTeams ==
    /\ \E r \in CachedGet("GetLeagueTeams", "teams", "l1") :
         cacheTable' = r.tbl /\ last' = r.call
    /\ UNCHANGED <<cacheEnabled, hist, clientVars, syncVars, tradeVars>>

GetTeamRoster ==
    /\ \E r \in CachedGet("GetTeamRoster", "roster", "t1") :
         cacheTable' = r.tbl /\ last' = r.call
    /\ UNCHANGED <<cacheEnabled, hist, clientVars, syncVars, tradeVars>>

\* The remaining life of a row after one more hour.  It is kept exactly
\* while it is the full ttl, 1, 0 or past; a remaining life of 2 hours or
\* more that is no longer the full ttl is kept as 2 ("at least 2"), so
\* from there the next hour leaves it at 2 or brings it to 1.
TickLeft(l) ==
    IF l < 0 THEN {l}
    ELSE IF l <= 1 THEN {l - 1}
    ELSE IF l = 2 THEN {2, 1}
    ELSE {2}

\* one hour passes
Tick ==
    /\ \E r \in cacheTable : ~Expired(r)
    /\ \E f \in [cacheTable -> -1..2] :
         /\ \A r \in cacheTable : f[r] \in TickLeft(r.left)
         /\ cacheTable' = { [r EXCEPT !.left = f[r]] : r \in cacheTable }
    /\ last' = NoCall
    /\ UNCHANGED <<cacheEnabled, hist, clientVars, syncVars, tradeVars>>

\* NewClient (lines 533-563) called again on the same database: a client
\* with whatever tokens its environment holds, sharing yahoo_api_cache
NewClient ==
    /\ \E t \in {0, 1} : accessToken' = t /\ refreshToken' = t
    /\ accessToken' # accessToken
    /\ last' = NoCall
    /\ UNCHANGED <<tokenMutex, writing, pc, loc>>
    /\ UNCHANGED <<cacheEnabled, cacheTable, hist, syncVars, tradeVars>>

NoHist == [k \in GetKeys |-> [ev |-> "none", val |-> 0]]

\* ---- APICache called directly ----
SetHist(key, ev, val) == hist' = [hist EXCEPT ![key] = [ev |-> ev, val |-> val]]

\* APICache.Set(key, value, ttl)
CacheSet ==
    \E key \in GetKeys, v \in Values, ttl \in 0..MaxTTL :
      \E st \in CacheSetOutcomes(cacheTable, key, v, ttl) :
        /\ cacheTable' = st.tbl
        /\ IF st.err = "nil" THEN SetHist(key, "set", v) ELSE UNCHANGED hist
        /\ UNCHANGED <<cacheEnabled, last, clientVars, syncVars, tradeVars>>

\* APICache.Get(key)
CacheGet ==
    \E key \in GetKeys :
      \E g \in CacheGetOutcomes(cacheTable, key) :
        /\ cacheTable' = g.tbl
        /\ IF g.err = "expired"
           THEN SetHist(key, IF g.del = "nil" THEN "expired" ELSE "expired_kept",
                        IF g.del = "nil" THEN 0 ELSE hist[key].val)
           ELSE UNCHANGED hist
        /\ UNCHANGED <<cacheEnabled, last, clientVars, syncVars, tradeVars>>

\* APICache.Delete(key)
CacheDelete ==
    \E key \in GetKeys :
      \E d \in CacheDeleteOutcomes(cacheTable, key) :
        /\ cacheTable' = d.tbl
        /\ IF d.err = "nil" THEN SetHist(key, "delete", 0) ELSE UNCHANGED hist
        /\ UNCHANGED <<cacheEnabled, last, clientVars, syncVars, tradeVars>>

\* APICache.CleanExpired()
CacheCleanExpired ==
    \E c \in CacheCleanOutcomes(cacheTable) :
        /\ cacheTable' = c.tbl
        /\ hist' = [k \in GetKeys |->
                      IF c.err = "nil" /\ \E r \in RowsOf(cacheTable, k) : Expired(r)
                      THEN [ev |-> "cleaned", val |-> 0]
                      ELSE hist[k]]
        /\ UNCHANGED <<cacheEnabled, last, clientVars, syncVars, tradeVars>>

(***************************************************************************)
(* Claims about the cache                                                  *)
(***************************************************************************)
\* the row a method's fetched result res is expected to leave in the cache
FreshRow(op, key, res) ==
    [key |-> key, value |-> JSONMarshal(res),
     left |-> CASE op = "GetUserLeagues" -> 24
                [] op = "GetLeagueTeams" -> 6
                [] op = "GetTeamRoster"  -> 1]

\* C6: with caching enabled, a result fetched by GetUserLeagues,
\* GetLeagueTeams or GetTeamRoster is stored with a TTL of 24, 6 and 1
\* hours; until the TTL has elapsed a repeated call with the same key
\* returns the stored value without any HTTP request; the first call after
\* it has elapsed deletes the entry, fetches again and stores the new
\* result.
C6_CachedForItsTTL ==
    cacheEnabled /\ last.op # "none" =>
        LET rows    == RowsOf(cacheTable, last.key)
            valid   == {r \in last.pre : ~Expired(r)}
            expired == {r \in last.pre : Expired(r)}
        IN  /\ last.http = 1 /\ last.res # Failed =>
                  rows = {FreshRow(last.op, last.key, last.res)}
            /\ valid # {} =>
                  /\ last.http = 0
                  /\ \E r \in valid : last.res = JSONUnmarshal(r.value)
                  /\ rows = last.pre
            /\ expired # {} =>
                  /\ rows \cap expired = {}
                  /\ last.http = 1
                  /\ last.res # Failed =>
                        rows = {FreshRow(last.op, last.key, last.res)}

MaxSyncs == 2

\* table players: yahoo_player_key -> id; UnknownKey has no row
Players == ("k1" :> 1) @@ ("k2" :> 2)
UnknownKey == "kx"
LeagueKey == "l1"

\* the teams and the roster entries an API result decodes to
TeamsOf(v) == IF v = 1 THEN <<"t1", "t2">> ELSE <<"t1">>
RosterOf(v) == IF v = 1 THEN <<"k1", UnknownKey>> ELSE <<UnknownKey, "k2">>

NoSync ==
    [ pc      |-> "idle",
      no      |-> 0,        \* which call this is
      teams   |-> <<>>,     \* teams (line 101)
      ti      |-> 0,        \* index of yahooTeam in teams
      team    |-> 0,        \* team.ID
      roster  |-> <<>>,     \* roster (line 126)
      ri      |-> 0,        \* index of rosterEntry in roster
      err     |-> "none",   \* the returned error: "nil" or "err"
      failed  |-> FALSE,    \* a fetch or a database statement of this call failed
      skipped |-> FALSE ]   \* a roster entry of this call was skipped

\* no ImportLeague call is running
NoImport ==
    [ pc     |-> "idle",
      no     |-> 0,         \* which call this is
      league |-> 0,         \* league.ID
      err    |-> "none" ]   \* the returned error: "nil", "already imported",
                            \* "not found" or "err"

SyncIdle ==
    /\ imp = NoImport
    /\ dbLeagues = {}
    /\ sync = NoSync
    /\ dbTeams = {}
    /\ dbRosters = {}
    /\ lastSyncedAt = 0
    /\ syncHistory = {}

\* return fmt.Errorf(...)
SyncFail(s) ==
    [s EXCEPT !.pc = "done", !.err = "err", !.failed = TRUE,
              !.teams = <<>>, !.ti = 0, !.team = 0, !.roster = <<>>, !.ri = 0]

\* an INSERT fails, or succeeds and LastInsertId fails, or both succeed
InsertOutcomes == {"execerr", "iderr", "nil"}

\* ExecContext of an INSERT and LastInsertId: the new row gets the next rowid
SqlInsert(tbl, fields) ==
    LET row == [id |-> Cardinality(tbl) + 1] @@ fields
    IN  { [tbl |-> IF o = "execerr" THEN tbl ELSE tbl \cup {row},
           id  |-> IF o = "nil" THEN row.id ELSE 0,
           err |-> o] : o \in InsertOutcomes }

\* TeamRepository.Create (team_repository.go lines 36-60)
TeamCreate(tbl, team) == SqlInsert(tbl, team)

\* RosterRepository.Create (roster_repository.go lines 31-55)
RosterCreate(tbl, entry) == SqlInsert(tbl, entry)

\* RosterRepository.GetPlayerIDByYahooKey (lines 95-100): the query fails,
\* or Scan finds no row, or it yields the player's id
GetPlayerIDByYahooKey(key) ==
    { [id |-> 0, err |-> "dberr"] } \cup
    (IF key \in DOMAIN Players
     THEN { [id |-> Players[key], err |-> "nil"] }
     ELSE { [id |-> 0, err |-> "norows"] })

\* if err != nil { continue } (lines 133-135)
LookupSkips_never(err) == FALSE
LookupSkips(err) == err # "nil"

\* the next iteration of the team loop (line 106), or the end of the loop
NextTeam(s) ==
    IF s.ti < Len(s.teams)
    THEN [s EXCEPT !.pc = "team_create", !.ti = s.ti + 1, !.team = 0,
                   !.roster = <<>>, !.ri = 0]
    ELSE [s EXCEPT !.pc = "finish", !.teams = <<>>, !.ti = 0, !.team = 0,
                   !.roster = <<>>, !.ri = 0]

\* the next iteration of the roster loop (line 131), or the end of the loop
NextEntry(s) ==
    IF s.ri < Len(s.roster) THEN [s EXCEPT !.ri = s.ri + 1] ELSE NextTeam(s)

\* a caller invokes SyncTeamsAndRosters
SyncStart ==
    /\ sync.pc = "idle"
    /\ imp.pc = "idle"
    /\ sync.no < MaxSyncs
    /\ sync' = [NoSync EXCEPT !.pc = "fetch_teams", !.no = sync.no + 1]
    /\ UNCHANGED <<dbTeams, dbRosters, lastSyncedAt, syncHistory>>
    /\ UNCHANGED <<importVars, cacheVars, clientVars, tradeVars>>

\* lines 99-104: s.yahooClient.GetLeagueTeams
SyncFetchTeams ==
    /\ sync.pc = "fetch_teams"
    /\ \E r \in CachedGet("GetLeagueTeams", "teams", LeagueKey) :
         /\ cacheTable' = r.tbl
         /\ sync' = IF r.call.res = Failed
                    THEN SyncFail(sync)
                    ELSE NextTeam([sync EXCEPT !.teams = TeamsOf(r.call.res)])
    /\ UNCHANGED <<dbTeams, dbRosters, lastSyncedAt, syncHistory>>
    /\ UNCHANGED <<importVars, cacheEnabled, last, hist, clientVars, tradeVars>>

\* lines 107-124: s.teamRepo.Create
SyncTeamCreate ==
    /\ sync.pc = "team_create"
    /\ \E c \in TeamCreate(dbTeams, [key |-> sync.teams[sync.ti], sync |-> sync.no]) :
         /\ dbTeams' = c.tbl
         /\ sync' = IF c.err = "nil"
                    THEN [sync EXCEPT !.pc = "fetch_roster", !.team = c.id]
                    ELSE SyncFail(sync)
    /\ UNCHANGED <<dbRosters, lastSyncedAt, syncHistory>>
    /\ UNCHANGED <<importVars, cacheVars, clientVars, tradeVars>>

\* lines 126-129: s.yahooClient.GetTeamRoster
SyncFetchRoster ==
    /\ sync.pc = "fetch_roster"
    /\ \E r \in CachedGet("GetTeamRoster", "roster", sync.teams[sync.ti]) :
         /\ cacheTable' = r.tbl
         /\ sync' = IF r.call.res = Failed
                    THEN SyncFail(sync)
                    ELSE LET s == [sync EXCEPT !.roster = RosterOf(r.call.res),
                                               !.ri = 0]
                         IN  IF Len(s.roster) = 0
                             THEN NextTeam(s)
                             ELSE [NextEntry(s) EXCEPT !.pc = "roster_entry"]
    /\ UNCHANGED <<dbTeams, dbRosters, lastSyncedAt, syncHistory>>
    /\ UNCHANGED <<importVars, cacheEnabled, last, hist, clientVars, tradeVars>>

\* lines 131-148: one iteration of the roster loop
SyncRosterEntry ==
    /\ sync.pc = "roster_entry"
    /\ \E l \in GetPlayerIDByYahooKey(sync.roster[sync.ri]) :
         IF LookupSkips(l.err)
         THEN /\ sync' = NextEntry([sync EXCEPT
                             !.failed  = @ \/ l.err = "dberr",
                             !.skipped = TRUE])
              /\ UNCHANGED dbRosters
         ELSE \E c \in RosterCreate(dbRosters,
                          [team |-> sync.team, player |-> l.id,
                           key |-> sync.roster[sync.ri], sync |-> sync.no]) :
                /\ dbRosters' = c.tbl
                /\ sync' = IF c.err = "nil" THEN NextEntry(sync) ELSE SyncFail(sync)
    /\ UNCHANGED <<dbTeams, lastSyncedAt, syncHistory>>
    /\ UNCHANGED <<importVars, cacheVars, clientVars, tradeVars>>

\* lines 151-162: UpdateSyncTime, then the sync_history row (error ignored)
SyncFinish ==
    /\ sync.pc = "finish"
    /\ \/ /\ sync' = SyncFail(sync)
          /\ UNCHANGED <<lastSyncedAt, syncHistory>>
       \/ /\ lastSyncedAt' = sync.no
          /\ \E h \in {"nil", "dberr"} :
               /\ syncHistory' = IF h = "nil" THEN syncHistory \cup {sync.no}
                                 ELSE syncHistory
               /\ sync' = [sync EXCEPT !.pc = "done", !.err = "nil",
                                       !.failed = @ \/ h = "dberr"]
    /\ UNCHANGED <<dbTeams, dbRosters>>
    /\ UNCHANGED <<importVars, cacheVars, clientVars, tradeVars>>

\* the caller has the result
SyncReturn ==
    /\ sync.pc = "done"
    /\ imp.pc = "idle"
    /\ sync' = [NoSync EXCEPT !.no = sync.no]
    /\ UNCHANGED <<dbTeams, dbRosters, lastSyncedAt, syncHistory>>
    /\ UNCHANGED <<importVars, cacheVars, clientVars, tradeVars>>

\* the leagues of a GetUserLeagues response
LeaguesOf(v) == IF v = 1 THEN <<LeagueKey, "l2">> ELSE <<"l2">>

\* return fmt.Errorf(...) of ImportLeague
ImportFail(i, e) == [i EXCEPT !.pc = "done", !.err = e]

\* LeagueRepository.GetByYahooID (league_repository.go lines 62-84): the
\* query fails, or Scan finds no row, or it yields the league's row
GetByYahooID(tbl, yahooLeagueID) ==
    { [found |-> FALSE, err |-> "dberr"] } \cup
    (IF \E l \in tbl : l.key = yahooLeagueID
     THEN { [found |-> TRUE, err |-> "nil"] }
     ELSE { [found |-> FALSE, err |-> "norows"] })

\* LeagueRepository.Create (league_repository.go lines 35-60)
LeagueCreate(tbl, league) == SqlInsert(tbl, league)

\* a caller invokes ImportLeague
ImportStart ==
    /\ imp.pc = "idle"
    /\ sync.pc = "idle"
    /\ imp.no < MaxSyncs
    /\ imp' = [NoImport EXCEPT !.pc = "lookup", !.no = imp.no + 1]
    /\ UNCHANGED <<dbLeagues, sync, dbTeams, dbRosters, lastSyncedAt, syncHistory>>
    /\ UNCHANGED <<cacheVars, clientVars, tradeVars>>

\* lines 39-46: s.leagueRepo.GetByYahooID
ImportLookup ==
    /\ imp.pc = "lookup"
    /\ \E g \in GetByYahooID(dbLeagues, LeagueKey) :
         imp' = IF g.err = "dberr" THEN ImportFail(imp, "err")
                ELSE IF g.found THEN ImportFail(imp, "already imported")
                ELSE [imp EXCEPT !.pc = "fetch_leagues"]
    /\ UNCHANGED <<dbLeagues, sync, dbTeams, dbRosters, lastSyncedAt, syncHistory>>
    /\ UNCHANGED <<cacheVars, clientVars, tradeVars>>

\* lines 48-63: s.yahooClient.GetUserLeagues and the search for the league
ImportFetchLeagues ==
    /\ imp.pc = "fetch_leagues"
    /\ \E r \in CachedGet("GetUserLeagues", "leagues", "nba") :
         /\ cacheTable' = r.tbl
         /\ imp' = IF r.call.res = Failed THEN ImportFail(imp, "err")
                   ELSE IF \E i \in DOMAIN LeaguesOf(r.call.res) :
                             LeaguesOf(r.call.res)[i] = LeagueKey
                        THEN [imp EXCEPT !.pc = "create"]
                        ELSE ImportFail(imp, "not found")
    /\ UNCHANGED <<dbLeagues, sync, dbTeams, dbRosters, lastSyncedAt, syncHistory>>
    /\ UNCHANGED <<cacheEnabled, last, hist, clientVars, tradeVars>>

\* lines 65-93: s.leagueRepo.Create, then the call of SyncTeamsAndRosters
ImportCreate ==
    /\ imp.pc = "create"
    /\ \E c \in LeagueCreate(dbLeagues, [key |-> LeagueKey, imp |-> imp.no]) :
         /\ dbLeagues' = c.tbl
         /\ IF c.err = "nil"
            THEN /\ imp' = [imp EXCEPT !.pc = "sync", !.league = c.id]
                 /\ sync' = [NoSync EXCEPT !.pc = "fetch_teams", !.no = imp.no]
            ELSE /\ imp' = ImportFail(imp, "err")
                 /\ UNCHANGED sync
    /\ UNCHANGED <<dbTeams, dbRosters, lastSyncedAt, syncHistory>>
    /\ UNCHANGED <<cacheVars, clientVars, tradeVars>>

\* lines 91-95: SyncTeamsAndRosters has returned
ImportSyncReturn ==
    /\ imp.pc = "sync"
    /\ sync.pc = "done"
    /\ imp' = IF sync.err = "nil" THEN [imp EXCEPT !.pc = "done", !.err = "nil"]
              ELSE ImportFail(imp, "err")
    /\ sync' = [NoSync EXCEPT !.no = sync.no]
    /\ UNCHANGED <<dbLeagues, dbTeams, dbRosters, lastSyncedAt, syncHistory>>
    /\ UNCHANGED <<cacheVars, clientVars, tradeVars>>

\* the caller has the result
ImportReturn ==
    /\ imp.pc = "done"
    /\ imp' = [imp EXCEPT !.pc = "idle"]
    /\ UNCHANGED <<dbLeagues, sync, dbTeams, dbRosters, lastSyncedAt, syncHistory>>
    /\ UNCHANGED <<cacheVars, clientVars, tradeVars>>

(***************************************************************************)
(* TradeService (part_002) and EvaluationService (part_004)                *)
(***************************************************************************)
\* starting players on each of the two teams of the league
NumStarters == 2
\* GenerateSuggestions is called with a limit of 0..MaxLimit
MaxLimit == 2

\* player_projections.fpg: whole numbers, for which the float64 operations
\* below give the same comparisons as exact arithmetic
FPGs == {-37, 37, 43, 44}

UserTeam == 1
OtherTeam == 2
PlayerIds == 1..(2 * NumStarters)
\* fantasy_rosters with is_starting = 1: the player ids of a team, in order
Starters(team) == [i \in 1..NumStarters |-> (team - 1) * NumStarters + i]

Abs(x) == IF x < 0 THEN -x ELSE x

RECURSIVE GCD(_, _)
GCD(a, b) == IF b = 0 THEN a ELSE GCD(b, a % b)

\* a float64 value as the fraction <<n, d>> in lowest terms with d > 0
Rat(n, d) ==
    LET g == GCD(Abs(n), Abs(d))
        s == IF d < 0 THEN -1 ELSE 1
    IN  <<(s * n) \div g, (s * d) \div g>>
RatOfInt(i) == <<i, 1>>
RatMul(x, y) == Rat(x[1] * y[1], x[2] * y[2])
RatDiv(x, y) == Rat(x[1] * y[2], x[2] * y[1])
RatSub(x, y) == Rat(x[1] * y[2] - y[1] * x[2], x[2] * y[2])
RatLT(x, y) == x[1] * y[2] < y[1] * x[2]

\* percentDiff < -15.0 || percentDiff > 15.0 (line 237)
OutOfBand_upperOnly(percentDiff) == RatLT(RatOfInt(15), percentDiff)
OutOfBand(percentDiff) ==
    RatLT(percentDiff, RatOfInt(-15)) \/ RatLT(RatOfInt(15), percentDiff)

\* TradeService.isGoodFit (part_002 lines 223-242)
isGoodFit(playerA, playerB) ==
    LET valueDiff == RatOfInt(playerA.FPG - playerB.FPG)
        avgValue  == Rat(playerA.FPG + playerB.FPG, 2)
    IN  IF avgValue = RatOfInt(0)
        THEN FALSE
        ELSE LET percentDiff == RatMul(RatDiv(valueDiff, avgValue), RatOfInt(100))
             IN  IF OutOfBand(percentDiff) THEN FALSE ELSE TRUE

\* EvaluationService.sumFPG (part_004 lines 313-319)
RECURSIVE sumFPG(_)
sumFPG(players) ==
    IF players = <<>> THEN 0 ELSE Head(players).FPG + sumFPG(Tail(players))

\* teamAValue == 0 && teamBValue == 0 (line 105)
BothZero_never(teamAValue, teamBValue) == FALSE
BothZero(teamAValue, teamBValue) == teamAValue = 0 /\ teamBValue = 0

\* the two range checks that end calculateFairnessScore (part_004 lines
\* 120-125); the variant has lost the upper one
ClampScore_noUpper(fairnessScore) ==
    IF RatLT(fairnessScore, RatOfInt(0)) THEN RatOfInt(0) ELSE fairnessScore
ClampScore(fairnessScore) ==
    IF RatLT(fairnessScore, RatOfInt(0)) THEN RatOfInt(0)
    ELSE IF RatLT(RatOfInt(100), fairnessScore) THEN RatOfInt(100)
    ELSE fairnessScore

\* EvaluationService.calculateFairnessScore (part_004 lines 98-125)
calculateFairnessScore(teamAPlayers, teamBPlayers) ==
    LET teamAValue == sumFPG(teamAPlayers)
        teamBValue == sumFPG(teamBPlayers)
        avgValue   == Rat(teamAValue + teamBValue, 2)
        valueDelta == RatOfInt(Abs(teamAValue - teamBValue))
        fairnessScore ==
            RatSub(RatOfInt(100),
                   RatMul(RatDiv(valueDelta, avgValue), RatOfInt(100)))
    IN  IF BothZero(teamAValue, teamBValue) THEN RatOfInt(100)
        ELSE IF avgValue = RatOfInt(0) THEN RatOfInt(0)
        ELSE ClampScore(fairnessScore)

\* proj_pts of a player_projections row: the projected points behind each
\* fantasy-points value of FPGs (44 and 43 points per game differ by other
\* categories only)
ProjPTS(fpg) ==
    CASE fpg = -37 -> 0
      [] fpg = 37  -> 12
      [] fpg = 43  -> 15
      [] fpg = 44  -> 15

\* the rows of player_projections for the given player ids, when the query
\* succeeds (getPlayerProjections, part_004 lines 321-366)
ProjectionsOf(playerIDs) ==
    [i \in 1..Len(playerIDs) |->
        [PlayerID |-> playerIDs[i], FPG |-> projections[playerIDs[i]],
         PTS |-> ProjPTS(projections[playerIDs[i]])]]

\* EvaluationService.getTeamCategoryTotals (part_004 lines 368-395): the sum
\* of proj_pts over the team's starting players
RECURSIVE SumPTS(_)
SumPTS(players) ==
    IF players = <<>> THEN 0 ELSE Head(players).PTS + SumPTS(Tail(players))
getTeamCategoryTotals(teamID) == [PTS |-> SumPTS(ProjectionsOf(Starters(teamID)))]

\* EvaluationService.simulateTrade (part_004 lines 178-206)
simulateTrade(current, playersIn, playersOut) ==
    [PTS |-> current.PTS - SumPTS(playersOut) + SumPTS(playersIn)]

\* EvaluationService.calculateCategoryChanges (part_004 lines 208-242)
calculateCategoryChanges(before, after) ==
    << [Category |-> "PTS", Change |-> after.PTS - before.PTS] >>

\* EvaluationService.calculateTeamImpact (part_004 lines 127-176), when the
\* totals query succeeds
calculateTeamImpact(teamID, playersIn, playersOut) ==
    LET currentTotals   == getTeamCategoryTotals(teamID)
        afterTotals     == simulateTrade(currentTotals, playersIn, playersOut)
        categoryChanges == calculateCategoryChanges(currentTotals, afterTotals)
    IN  [TeamID |-> teamID,
         ValueChange |-> sumFPG(playersIn) - sumFPG(playersOut),
         CategoryImprovements |->
             SelectSeq(categoryChanges, LAMBDA change : change.Change > 0),
         CategoryDeclines |->
             SelectSeq(categoryChanges, LAMBDA change : change.Change < 0)]

\* TradeService.formatBenefit (part_002 lines 244-265): the text as the list
\* of its parts, the categories named with their change
formatBenefit(impact) ==
    IF Len(impact.CategoryImprovements) = 0
    THEN <<"No significant benefit">>
    ELSE <<"Improves: ">> \o
         [i \in 1..Len(impact.CategoryImprovements) |->
             <<impact.CategoryImprovements[i].Category,
               impact.CategoryImprovements[i].Change>>]

\* EvaluationService.EvaluateTrade (part_004 lines 56-96): a query fails, or
\* the trade is scored
NoImpact ==
    [TeamID |-> 0, ValueChange |-> 0, CategoryImprovements |-> <<>>,
     CategoryDeclines |-> <<>>]
EvaluateTrade(teamAID, teamAGives, teamBID, teamBGives) ==
    LET teamAProjections == ProjectionsOf(teamAGives)
        teamBProjections == ProjectionsOf(teamBGives)
        fairnessScore == calculateFairnessScore(teamAProjections,
                                                teamBProjections)
    IN  { [err |-> "err", TeamAImpact |-> NoImpact, TeamBImpact |-> NoImpact,
           FairnessScore |-> RatOfInt(0), IsFair |-> FALSE],
          [err |-> "nil",
           TeamAImpact |-> calculateTeamImpact(teamAID, teamBProjections,
                                               teamAProjections),
           TeamBImpact |-> calculateTeamImpact(teamBID, teamAProjections,
                                               teamBProjections),
           FairnessScore |-> fairnessScore,
           IsFair |-> ~RatLT(fairnessScore, RatOfInt(75))] }

\* the rows getRosterWithProjections reads for a team (part_002 lines
\* 351-384)
RosterRows(team) ==
    { [PlayerID |-> Starters(team)[i], FPG |-> projections[Starters(team)[i]]] :
      i \in 1..NumStarters }

\* the pairs findTradesWithTeam makes a suggestion for when every row scans
\* and every evaluation succeeds (part_002 lines 137-188)
Candidates(teamAID, teamAPlayers, teamBID, teamBPlayers) ==
    UNION { { [TeamAGives |-> p[1], TeamBGives |-> p[2],
               FairnessScore |-> e.FairnessScore,
               TeamABenefit |-> formatBenefit(e.TeamAImpact),
               TeamBBenefit |-> formatBenefit(e.TeamBImpact)] :
              e \in { ev \in EvaluateTrade(teamAID, <<p[2].PlayerID>>,
                                           teamBID, <<p[1].PlayerID>>) :
                          ev.err = "nil" /\ ev.IsFair } } :
            p \in { q \in teamAPlayers \X teamBPlayers : isGoodFit(q[1], q[2]) } }

\* TradeService.findTradesWithTeam (part_002 lines 117-191): a roster query
\* fails, or the suggestions are those of the candidate pairs whose rows
\* scanned and whose evaluation succeeded
findTradesWithTeam(teamAID, teamBID) ==
    { [err |-> "err", suggestions |-> {}] } \cup
    { [err |-> "nil", suggestions |-> S] :
      S \in SUBSET Candidates(teamAID, RosterRows(teamAID),
                               teamBID, RosterRows(teamBID)) }

\* team_analysis rows: three weakest and three strongest category names
\* (getUserTeamAnalysis, part_002 lines 386-436)
Categories == {"PTS", "REB", "AST", "BLK", "TO", "3PM", "STL", "FG%", "FT%"}
Analysis(weak, strong) == [WeakCategories |-> weak, StrongCategories |-> strong]

\* the analyses calculateComplementaryScore is called with directly: rows
\* of three and three names, and shorter lists down to the empty ones
\* (trade_service_test.go lines 8-110 and 299-322)
TestAnalyses ==
    { Analysis(<<"REB", "BLK", "TO">>, <<"PTS", "AST", "3PM">>),
      Analysis(<<"PTS", "AST", "3PM">>, <<"REB", "BLK", "FG%">>),
      Analysis(<<"FG%", "FT%", "STL">>, <<"PTS", "AST", "3PM">>),
      Analysis(<<"PTS">>, <<"REB", "TO">>),
      Analysis(<<>>, <<>>) }

\* TradeService.calculateComplementaryScore (part_002 lines 193-221)
calculateComplementaryScore_weakOnly(teamA, teamB) ==
    LET teamAStrongMap == {teamA.StrongCategories[i] :
                             i \in DOMAIN teamA.StrongCategories}
    IN  Cardinality({i \in DOMAIN teamB.WeakCategories :
                       teamB.WeakCategories[i] \in teamAStrongMap})
calculateComplementaryScore(teamA, teamB) ==
    LET teamAWeakMap   == {teamA.WeakCategories[i] :
                             i \in DOMAIN teamA.WeakCategories}
        teamAStrongMap == {teamA.StrongCategories[i] :
                             i \in DOMAIN teamA.StrongCategories}
    IN  Cardinality({i \in DOMAIN teamB.WeakCategories :
                       teamB.WeakCategories[i] \in teamAStrongMap})
        + Cardinality({i \in DOMAIN teamB.StrongCategories :
                         teamB.StrongCategories[i] \in teamAWeakMap})

\* sort.Slice by descending FairnessScore, then suggestions[:limit] (lines
\* 106-112): the order of equal scores is any
RECURSIVE SortAndLimit(_, _)
SortAndLimit(S, limit) ==
    IF limit = 0 \/ S = {}
    THEN { <<>> }
    ELSE UNION { { <<m>> \o r : r \in SortAndLimit(S \ {m}, limit - 1) } :
                 m \in { x \in S : \A y \in S :
                            ~RatLT(x.FairnessScore, y.FairnessScore) } }

\* TradeService.GenerateSuggestions (part_002 lines 62-115) for the user's
\* team, whose team_analysis row is userAnalysis, in a league with one other
\* team, whose row is otherAnalysis: a lookup before the loop fails; or the
\* other team is passed over (its analysis failed, the complementary score
\* is below 2, or findTradesWithTeam failed); or its suggestions are
\* collected. With a negative limit len(suggestions) > limit always holds
\* and suggestions[:limit] panics (lines 110-112): err is then "panic"
GenerateSuggestionsOutcomes(teamID, limit, userAnalysis, otherAnalysis) ==
    { [err |-> "err", suggestions |-> <<>>] } \cup
    (IF limit < 0
     THEN { [err |-> "panic", suggestions |-> <<>>] }
     ELSE { [err |-> "nil", suggestions |-> s] :
            s \in UNION { SortAndLimit(f.suggestions, limit) :
                          f \in { [err |-> "nil", suggestions |-> {}] } \cup
                                (IF calculateComplementaryScore(
                                        userAnalysis, otherAnalysis) < 2
                                 THEN {}
                                 ELSE findTradesWithTeam(teamID, OtherTeam)) } })

NoOut == [op |-> "none", args |-> <<>>, res |-> <<>>]
TradeIdle == projections = <<>> /\ out = NoOut /\ playerProjections = {}

\* a call of isGoodFit on a starter of each team
IsGoodFit ==
    /\ out.op = "none"
    /\ \E playerA \in RosterRows(UserTeam), playerB \in RosterRows(OtherTeam) :
         out' = [op |-> "isGoodFit", args |-> <<playerA, playerB>>,
                 res |-> isGoodFit(playerA, playerB)]
    /\ UNCHANGED <<projections, playerProjections, clientVars, cacheVars, syncVars>>

\* a call of calculateFairnessScore on the projections of some of each
\* team's starters
CalculateFairnessScore ==
    /\ out.op = "none"
    /\ \E i, j \in 0..NumStarters :
         LET teamAPlayers == ProjectionsOf(SubSeq(Starters(UserTeam), 1, i))
             teamBPlayers == ProjectionsOf(SubSeq(Starters(OtherTeam), 1, j))
         IN  out' = [op |-> "calculateFairnessScore",
                     args |-> <<teamAPlayers, teamBPlayers>>,
                     res |-> calculateFairnessScore(teamAPlayers, teamBPlayers)]
    /\ UNCHANGED <<projections, playerProjections, clientVars, cacheVars, syncVars>>

\* a call of EvaluateTrade with some of each team's starters given away
EvaluateTradeCall ==
    /\ out.op = "none"
    /\ \E n \in 0..NumStarters :
         LET teamAGives == SubSeq(Starters(UserTeam), 1, n)
             teamBGives == SubSeq(Starters(OtherTeam), 1, n)
         IN  \E r \in EvaluateTrade(UserTeam, teamAGives, OtherTeam, teamBGives) :
               out' = [op |-> "EvaluateTrade",
                       args |-> <<teamAGives, teamBGives>>, res |-> r]
    /\ UNCHANGED <<projections, playerProjections, clientVars, cacheVars, syncVars>>

\* a call of calculateComplementaryScore on two analyses
CalculateComplementaryScore ==
    /\ out.op = "none"
    /\ \E teamA \in TestAnalyses, teamB \in TestAnalyses :
         out' = [op |-> "calculateComplementaryScore", args |-> <<teamA, teamB>>,
                 res |-> calculateComplementaryScore(teamA, teamB)]
    /\ UNCHANGED <<projections, playerProjections, clientVars, cacheVars, syncVars>>

\* the team_analysis rows of the league: the user's team, and the other
\* team with a complementary score of 1 or of 2
UserAnalysis == Analysis(<<"REB", "BLK", "TO">>, <<"PTS", "AST", "3PM">>)
OtherAnalyses ==
    { Analysis(<<"PTS", "STL", "FG%">>, <<"FT%", "AST", "3PM">>),
      Analysis(<<"PTS", "STL", "FG%">>, <<"TO", "FT%", "3PM">>) }

\* a call of GenerateSuggestions for the user's team
GenerateSuggestions ==
    /\ out.op = "none"
    /\ \E limit \in -1..MaxLimit, otherAnalysis \in OtherAnalyses :
         \E r \in GenerateSuggestionsOutcomes(UserTeam, limit,
                                               UserAnalysis, otherAnalysis) :
           out' = [op |-> "GenerateSuggestions",
                   args |-> <<UserTeam, limit, UserAnalysis, otherAnalysis>>,
                   res |-> r]
    /\ UNCHANGED <<projections, playerProjections, clientVars, cacheVars, syncVars>>

\* the caller has the result
TradeReturn ==
    /\ out.op # "none"
    /\ out' = NoOut
    /\ UNCHANGED <<projections, playerProjections, clientVars, cacheVars, syncVars>>

(***************************************************************************)
(* Analysis and valuation: z-scores (part_003, trade_service_test.go)      *)
(***************************************************************************)
\* float64 arithmetic with its rounding: every operation rounds its exact
\* result to the nearest value with a significand of FloatBits bits, ties to
\* the even significand (FloatBits stands for the 53 bits of float64)
FloatBits == 4
MaxGroup == 3
ExpRange == -10..10
RatAdd(x, y) == Rat(x[1] * y[2] + y[1] * x[2], x[2] * y[2])
Pow2(k) == 2 ^ k

\* 2^(FloatBits-1) <= a/d / 2^k < 2^FloatBits
InBinade(a, d, k) ==
    IF k >= 0
    THEN Pow2(FloatBits - 1) * Pow2(k) * d <= a /\ a < Pow2(FloatBits) * Pow2(k) * d
    ELSE Pow2(FloatBits - 1) * d <= a * Pow2(-k) /\ a * Pow2(-k) < Pow2(FloatBits) * d

\* a Go expression is evaluated once and its value is used: F applied to the
\* value of v
Eval(v, F(_)) == CHOOSE r \in { F(x) : x \in {v} } : TRUE

\* the float nearest to the exact value a/d > 0 that lies in the binade of
\* exponent e
RoundIn(a, d, e) ==
    LET num == IF e >= 0 THEN a ELSE a * Pow2(-e)
        den == IF e >= 0 THEN d * Pow2(e) ELSE d
        m   == num \div den
        r   == num % den
        mm  == IF 2 * r > den \/ (2 * r = den /\ m % 2 = 1) THEN m + 1 ELSE m
    IN  IF e >= 0 THEN Rat(mm * Pow2(e), 1) ELSE Rat(mm, Pow2(-e))

\* the float nearest to the exact value x
Fl(x) ==
    Eval(x, LAMBDA v :
        IF v[1] = 0 THEN v
        ELSE Eval(RoundIn(Abs(v[1]), v[2],
                          CHOOSE k \in ExpRange : InBinade(Abs(v[1]), v[2], k)),
                  LAMBDA r : IF v[1] < 0 THEN <<-r[1], r[2]>> ELSE r))
FlAdd(x, y) == Fl(RatAdd(x, y))
FlSub(x, y) == Fl(RatSub(x, y))
FlMul(x, y) == Fl(RatMul(x, y))
FlDiv(x, y) == Fl(RatDiv(x, y))

\* math.Sqrt: the float nearest to the square root (a square root of a float
\* is never halfway between two floats)
FloatGrid ==
    { IF k >= 0 THEN Rat(m * Pow2(k), 1) ELSE Rat(m, Pow2(-k)) :
      m \in Pow2(FloatBits - 1)..(Pow2(FloatBits) - 1), k \in ExpRange }
NearestRoot(x, lo, hi) ==
    IF RatLT(RatMul(RatDiv(RatAdd(lo, hi), RatOfInt(2)),
                    RatDiv(RatAdd(lo, hi), RatOfInt(2))), x)
    THEN hi ELSE lo
\* the floats between half the smaller and twice the larger of 1 and v: the
\* square root of v and the floats next to it are among them
RootWindow(v) ==
    LET one == RatOfInt(1)
        lo  == IF RatLT(v, one) THEN v ELSE one
        hi  == IF RatLT(v, one) THEN one ELSE v
    IN  { g \in FloatGrid : /\ ~RatLT(RatMul(RatOfInt(2), g), lo)
                            /\ ~RatLT(RatMul(RatOfInt(2), hi), g) }
FlSqrt(x) ==
    Eval(x, LAMBDA v :
        IF v[1] = 0 THEN v
        ELSE Eval(RootWindow(v), LAMBDA grid :
             Eval({ g \in grid : ~RatLT(v, RatMul(g, g)) }, LAMBDA below :
                 NearestRoot(v,
                     CHOOSE g \in below :
                         \A h \in below : ~RatLT(g, h),
                     CHOOSE g \in grid \ below :
                         \A h \in grid \ below : ~RatLT(h, g)))))

\* sum += v over a list, left to right
RECURSIVE FlSum(_)
FlSum(values) ==
    IF values = <<>> THEN RatOfInt(0)
    ELSE FlAdd(FlSum(SubSeq(values, 1, Len(values) - 1)), values[Len(values)])

\* variance += diff * diff over a list, left to right
RECURSIVE FlSquares(_, _)
FlSquares(values, mean) ==
    IF values = <<>> THEN RatOfInt(0)
    ELSE FlAdd(FlSquares(SubSeq(values, 1, Len(values) - 1), mean),
               Eval(FlSub(values[Len(values)], mean),
                    LAMBDA diff : FlMul(diff, diff)))

\* AnalysisService.calculateZScore (part_003 lines 172-195)
calculateZScore(value, allValues) ==
    IF Len(allValues) = 0 THEN RatOfInt(0)
    ELSE Eval(FlDiv(FlSum(allValues), RatOfInt(Len(allValues))), LAMBDA mean :
         Eval(FlSquares(allValues, mean), LAMBDA variance :
         Eval(FlSqrt(FlDiv(variance, RatOfInt(Len(allValues)))), LAMBDA stdDev :
             IF stdDev = RatOfInt(0) THEN RatOfInt(0)
             ELSE FlDiv(FlSub(value, mean), stdDev))))

\* ValuationService.calculatePlayerValue (trade_service_test.go lines
\* 462-486) for scoring settings that count points only: ZScore is left at
\* its zero value
calculatePlayerValue(player, settings) ==
    [PlayerID |-> player.PlayerID,
     FPG |-> FlMul(player.PointsPerGame, settings.PTS),
     ZScore |-> RatOfInt(0)]

\* ValuationService.calculateStats (trade_service_test.go lines 504-524)
calculateStats(players) ==
    IF Len(players) = 0 THEN [mean |-> RatOfInt(0), stdDev |-> RatOfInt(0)]
    ELSE Eval([i \in 1..Len(players) |-> players[i].FPG], LAMBDA fpgs :
         Eval(FlDiv(FlSum(fpgs), RatOfInt(Len(players))), LAMBDA mean :
         Eval(FlDiv(FlSquares(fpgs, mean), RatOfInt(Len(players))),
              LAMBDA variance : [mean |-> mean, stdDev |-> FlSqrt(variance)])))

\* ValuationService.calculateZScores (trade_service_test.go lines 488-502):
\* the players slice after the call
calculateZScores(players) ==
    IF Len(players) = 0 THEN players
    ELSE Eval(calculateStats(players), LAMBDA stats :
             [i \in 1..Len(players) |->
                 IF RatLT(RatOfInt(0), stats.stdDev)
                 THEN [players[i] EXCEPT
                         !.ZScore = FlDiv(FlSub(players[i].FPG, stats.mean),
                                          stats.stdDev)]
                 ELSE players[i]])

\* the values a group is made of: floats that use every bit of the
\* significand, and small whole numbers
GroupValues ==
    { RatOfInt(Pow2(FloatBits) - 2), RatOfInt(Pow2(FloatBits) - 4),
      RatOfInt(8), RatOfInt(0) }
Groups == UNION { [1..n -> GroupValues] : n \in 0..MaxGroup }

\* a call of calculateZScore for a member of a group (any value when the
\* group is empty)
CalculateZScore ==
    /\ out.op = "none"
    /\ \E allValues \in Groups :
         \E value \in IF allValues = <<>> THEN GroupValues
                      ELSE { allValues[i] : i \in 1..Len(allValues) } :
           out' = [op |-> "calculateZScore", args |-> <<value, allValues>>,
                   res |-> calculateZScore(value, allValues)]
    /\ UNCHANGED <<projections, playerProjections, clientVars, cacheVars, syncVars>>

\* a call of calculateZScores on the values just computed for a group of
\* players
CalculateZScores ==
    /\ out.op = "none"
    /\ \E ppg \in Groups :
         LET players == [i \in 1..Len(ppg) |->
                           calculatePlayerValue(
                               [PlayerID |-> i, PointsPerGame |-> ppg[i]],
                               [PTS |-> RatOfInt(1)])]
         IN  out' = [op |-> "calculateZScores", args |-> <<players>>,
                     res |-> calculateZScores(players)]
    /\ UNCHANGED <<projections, playerProjections, clientVars, cacheVars, syncVars>>

\* the nine categories of analyzeTeam in the order of lines 113-123
CategoryNames == <<"PTS", "REB", "AST", "STL", "BLK", "TO", "FG%", "FT%", "3PM">>
NumWeakStrong == 3

\* the zScores map of analyzeTeam (part_003 lines 136-145), one entry per
\* category; the TO score is multiplied by -1
ZScoresOf_rawTO(totals, allTeams) ==
    LET z(c) == calculateZScore(totals[c],
                    [i \in 1..Len(allTeams) |-> allTeams[i].Totals[c]])
    IN  << z(1), z(2), z(3), z(4), z(5), z(6), z(7), z(8), z(9) >>
ZScoresOf(totals, allTeams) ==
    LET z(c) == calculateZScore(totals[c],
                    [i \in 1..Len(allTeams) |-> allTeams[i].Totals[c]])
    IN  << z(1), z(2), z(3), z(4), z(5), FlMul(z(6), RatOfInt(-1)),
           z(7), z(8), z(9) >>

\* three different categories in some order
Triples ==
    { t \in [1..NumWeakStrong -> 1..Len(CategoryNames)] :
        \A i, j \in 1..NumWeakStrong : i # j => t[i] # t[j] }

\* scores[:3] after sort.Slice by ascending ZScore (lines 152-156) of the
\* slice filled by ranging over the map (lines 147-150): the map is visited
\* in an unspecified order and sort.Slice is not stable, so categories with
\* equal scores come in any order
WeakChoices(zScores) ==
    { w \in Triples :
        /\ \A k \in 1..(NumWeakStrong - 1) : ~RatLT(zScores[w[k + 1]], zScores[w[k]])
        /\ \A c \in 1..Len(CategoryNames) :
             (\A k \in 1..NumWeakStrong : w[k] # c) =>
                 ~RatLT(zScores[c], zScores[w[NumWeakStrong]]) }

\* scores[len(scores)-3:] sorted by descending ZScore (lines 157-161)
StrongChoices(zScores) ==
    { s \in Triples :
        /\ \A k \in 1..(NumWeakStrong - 1) : ~RatLT(zScores[s[k]], zScores[s[k + 1]])
        /\ \A c \in 1..Len(CategoryNames) :
             (\A k \in 1..NumWeakStrong : s[k] # c) =>
                 ~RatLT(zScores[s[NumWeakStrong]], zScores[c]) }

CategoryScoresOf(t, zScores) ==
    [k \in 1..NumWeakStrong |->
        [Category |-> CategoryNames[t[k]], ZScore |-> zScores[t[k]]]]

\* AnalysisService.analyzeTeam (part_003 lines 109-169): the analyses a call
\* can return
analyzeTeam(teamID, totals, allTeams) ==
    Eval(ZScoresOf(totals, allTeams), LAMBDA zScores :
        UNION { { [TeamID |-> teamID,
                   CategoryScores |-> zScores,
                   WeakCategories |-> CategoryScoresOf(w, zScores),
                   StrongCategories |-> CategoryScoresOf(s, zScores)] :
                  s \in { t \in StrongChoices(zScores) :
                            \A i, j \in 1..NumWeakStrong : t[i] # w[j] } } :
                w \in WeakChoices(zScores) })

\* league totals: team 1 is below the rest in its first low categories and
\* above it in its last high categories, so that equal scores lie across
\* the cut after the third category; the totals of team 2 are level
MaxTied == 4
TeamTotals(low, high) ==
    [c \in 1..Len(CategoryNames) |->
        IF c <= low THEN RatOfInt(8)
        ELSE IF c > Len(CategoryNames) - high THEN RatOfInt(12)
        ELSE RatOfInt(10)]
LeagueTotals(low, high) ==
    << [TeamID |-> 1, Totals |-> TeamTotals(low, high)],
       [TeamID |-> 2, Totals |-> TeamTotals(0, 0)] >>

\* a call of analyzeTeam for a team of a league
AnalyzeTeam ==
    /\ out.op = "none"
    /\ \E low, high \in (NumWeakStrong - 1)..MaxTied, t \in 1..2 :
         LET allTeams == LeagueTotals(low, high)
         IN  \E r \in analyzeTeam(t, allTeams[t].Totals, allTeams) :
               out' = [op |-> "analyzeTeam",
                       args |-> <<t, allTeams[t].Totals, allTeams>>,
                       res |-> r]
    /\ UNCHANGED <<projections, playerProjections, clientVars, cacheVars, syncVars>>

\* the caller has the result
AnalysisReturn ==
    /\ out.op \in {"calculateZScore", "calculateZScores", "analyzeTeam",
                  "rankPlayers"}
    /\ out' = NoOut
    /\ UNCHANGED <<projections, playerProjections, clientVars, cacheVars, syncVars>>

(***************************************************************************)
(* ValuationService.CalculateAllPlayerValues (trade_service_test.go)       *)
(***************************************************************************)
\* the leagues a valuation is run for
LeagueIDs == 1..2

\* the most players that are active
MaxActive == 2

\* the players table with the season stats joined to it: player i has
\* ActivePPG(i) points per game; the first n players are the active ones
ActivePPG(i) == RatOfInt(8 + 2 * (i % 3))

\* the primary position of each player ("" for a player without one)
PrimaryPosition(i) == CASE i % 3 = 1 -> "PG" [] i % 3 = 2 -> "C" [] OTHER -> ""

\* fantasy_leagues.scoring_settings: JSON with a PTS weight, or text that
\* json.Unmarshal rejects
BadJSON == 0
ScoringTexts == {1, 2, BadJSON}

\* json.Unmarshal([]byte(league.ScoringSettings), &scoringSettings)
UnmarshalSettings(text) ==
    IF text = BadJSON THEN [err |-> "err", settings |-> [PTS |-> RatOfInt(0)]]
    ELSE [err |-> "nil", settings |-> [PTS |-> RatOfInt(text)]]

\* ValuationService.getLeague (lines 593-602): the query or Scan fails, or
\* it yields the league's scoring settings
getLeague(text) ==
    { [err |-> "err", ScoringSettings |-> BadJSON],
      [err |-> "nil", ScoringSettings |-> text] }

\* ValuationService.getActivePlayersWithStats (lines 604-645): the query or
\* a Scan fails; or rows.Next() returns false, at the end of the rows or at
\* an error before it (rows.Err() is not looked at), and the players read
\* so far are returned with a nil error
getActivePlayersWithStats(active) ==
    { [err |-> "err", players |-> <<>>] } \cup
    { [err |-> "nil",
       players |-> [i \in 1..n |-> [PlayerID |-> active[i],
                                    PointsPerGame |-> ActivePPG(active[i])]]]
      : n \in 0..Len(active) }

\* scarcityMap of applyPositionScarcity (lines 527-533); 1.0 for any other
\* position (lines 539-541)
ScarcityMultiplierOf(position) ==
    CASE position \in {"PG", "SG"} -> RatOfInt(1)
      [] position \in {"SF", "PF"} -> Fl(Rat(11, 10))
      [] position = "C"            -> Fl(Rat(13, 10))
      [] OTHER                     -> RatOfInt(1)

\* ValuationService.getPlayerPosition (lines 647-661): the position found,
\* or "F" when the query finds none or fails
getPlayerPosition(playerID) ==
    {"F"} \cup (IF PrimaryPosition(playerID) = "" THEN {}
                ELSE {PrimaryPosition(playerID)})

\* ValuationService.applyPositionScarcity (lines 526-543): the slices it
\* can leave
applyPositionScarcity(players) ==
    { [i \in 1..Len(players) |->
          [players[i] EXCEPT !.ScarcityMultiplier = ScarcityMultiplierOf(pos[i])]]
      : pos \in { f \in [1..Len(players) -> {"F", "PG", "C"}] :
                  \A i \in 1..Len(players) :
                      f[i] \in getPlayerPosition(players[i].PlayerID) } }

\* ValuationService.rankPlayers (lines 545-555)
rankPlayers_notLess(players) ==
    [i \in 1..Len(players) |->
        [players[i] EXCEPT !.OverallRank =
            1 + Cardinality({ j \in 1..Len(players) :
                              ~RatLT(players[j].FPG, players[i].FPG) })]]
rankPlayers(players) ==
    [i \in 1..Len(players) |->
        [players[i] EXCEPT !.OverallRank =
            1 + Cardinality({ j \in 1..Len(players) :
                              RatLT(players[i].FPG, players[j].FPG) })]]

\* the row the INSERT of savePlayerProjections writes for p (lines 568-584)
ProjectionRow(p) ==
    [player_id |-> p.PlayerID, league_id |-> p.LeagueID, fpg |-> p.FPG,
     z_score |-> p.ZScore, overall_rank |-> p.OverallRank,
     scarcity_multiplier |-> p.ScarcityMultiplier]

\* DELETE FROM player_projections WHERE league_id = ?
DeleteLeague(tbl, leagueID) == { r \in tbl : r.league_id # leagueID }

\* tx.Rollback() (line 562): the table is as it was at BeginTx
TxRollback(before, working) == before

\* tx.Commit() (line 590): the commit fails and nothing is written, or the
\* table is as the statements of the transaction left it
TxCommit(before, working) ==
    { [tbl |-> before, err |-> "err"], [tbl |-> working, err |-> "nil"] }

\* ValuationService.savePlayerProjections (lines 557-591): BeginTx fails; or
\* players[0] is out of range; or the DELETE or one of the INSERTs fails
\* and the deferred Rollback undoes the statements before it; or Commit
savePlayerProjections(tbl, players) ==
    { [tbl |-> tbl, err |-> "err"] } \cup
    (IF Len(players) = 0
     THEN { [tbl |-> TxRollback(tbl, tbl), err |-> "panic"] }
     ELSE LET deleted == DeleteLeague(tbl, players[1].LeagueID)
              Inserted(n) ==
                  deleted \cup { ProjectionRow(players[i]) : i \in 1..n }
          IN  { [tbl |-> TxRollback(tbl, tbl), err |-> "err"] } \cup
              { [tbl |-> TxRollback(tbl, Inserted(n - 1)), err |-> "err"]
                : n \in 1..Len(players) } \cup
              TxCommit(tbl, Inserted(Len(players))))

\* the result of CalculateAllPlayerValues: the table it leaves, the error
\* it returns ("panic" when it does not return) and the rows it computed
ValuationResult(tbl, err, rows) == [tbl |-> tbl, err |-> err, rows |-> rows]

\* ValuationService.CalculateAllPlayerValues (lines 410-446) for a league
\* whose scoring settings are text, with the players of active active
CalculateAllPlayerValues(tbl, leagueID, text, active) ==
    UNION {
      IF league.err # "nil" THEN { ValuationResult(tbl, "err", {}) }
      ELSE Eval(UnmarshalSettings(league.ScoringSettings), LAMBDA u :
        IF u.err # "nil" THEN { ValuationResult(tbl, "err", {}) }
        ELSE UNION {
          IF got.err # "nil" THEN { ValuationResult(tbl, "err", {}) }
          ELSE Eval(calculateZScores(
                      [i \in 1..Len(got.players) |->
                          calculatePlayerValue(got.players[i], u.settings) @@
                          [LeagueID |-> leagueID, OverallRank |-> 0,
                           ScarcityMultiplier |-> RatOfInt(0)]]),
                    LAMBDA playerValues :
                 UNION { Eval(rankPlayers(scarce), LAMBDA ranked :
                           { ValuationResult(s.tbl, s.err,
                                 { ProjectionRow(ranked[i])
                                   : i \in 1..Len(ranked) })
                             : s \in savePlayerProjections(tbl, ranked) })
                         : scarce \in applyPositionScarcity(playerValues) })
          : got \in getActivePlayersWithStats(active) })
      : league \in getLeague(text) }

\* a call of CalculateAllPlayerValues for one of the leagues while the
\* first n players are active
CalculateAllPlayerValuesCall ==
    /\ out.op = "none"
    /\ \E leagueID \in LeagueIDs, text \in ScoringTexts, n \in 0..MaxActive :
         \E r \in CalculateAllPlayerValues(playerProjections, leagueID, text,
                                           [i \in 1..n |-> i]) :
           /\ playerProjections' = r.tbl
           /\ out' = [op |-> "CalculateAllPlayerValues",
                      args |-> <<leagueID, n, playerProjections>>,
                      res |-> [err |-> r.err, rows |-> r.rows]]
    /\ UNCHANGED <<projections, clientVars, cacheVars, syncVars>>

\* a call of rankPlayers on the values of a group of players
\* (shooting_stats_complete.go lines 424-452)
RankPlayers ==
    /\ out.op = "none"
    /\ \E fpg \in Groups :
         LET players == [i \in 1..Len(fpg) |->
                           [PlayerID |-> i, FPG |-> fpg[i], OverallRank |-> 0]]
         IN  out' = [op |-> "rankPlayers", args |-> <<players>>,
                     res |-> rankPlayers(players)]
    /\ UNCHANGED <<projections, playerProjections, clientVars, cacheVars, syncVars>>

\* the caller has the result
ValuationReturn ==
    /\ out.op = "CalculateAllPlayerValues"
    /\ out' = NoOut
    /\ UNCHANGED <<projections, playerProjections, clientVars, cacheVars, syncVars>>

(***************************************************************************)
(* Stat helper: shooting stats and ParseNBAStats (pkg/yahoo)               *)
(***************************************************************************)
\* stat IDs (stats_helper.go lines 208-231); the two alternate compound IDs
\* are named in stats_helper_test.go only
StatIDGamesPlayed == 0
StatIDFGA == 3
StatIDFGM == 4
StatIDFGPercent == 5
StatIDFTA == 6
StatIDFTM == 7
StatIDFTPercent == 8
StatID3PA == 9
StatID3PM == 10
StatID3PPercent == 11
StatIDPoints == 12
StatIDOffensiveRebounds == 13
StatIDRebounds == 15
StatIDAssists == 16
StatIDSteals == 17
StatIDBlocks == 18
StatIDTurnovers == 19
StatIDFGMFGACompound == 9004003
StatIDFTMFTACompound == 9007006

\* a stat value is a string: the sequence of its characters
Digits == ("0" :> 0) @@ ("1" :> 1) @@ ("3" :> 3) @@ ("5" :> 5) @@ ("7" :> 7)
       @@ ("8" :> 8) @@ ("9" :> 9)
IsDigits(str) == \A i \in 1..Len(str) : str[i] \in DOMAIN Digits
RECURSIVE DigitsValue(_)
DigitsValue(str) ==
    IF str = <<>> THEN 0
    ELSE 10 * DigitsValue(SubSeq(str, 1, Len(str) - 1)) + Digits[str[Len(str)]]

\* a Go result (value, error)
Ok(v) == [val |-> v, err |-> "nil"]
Err(v) == [val |-> v, err |-> "err"]

\* strconv.Atoi: an optional sign and at least one digit
Atoi(str) ==
    LET signed == str # <<>> /\ str[1] \in {"+", "-"}
        digits == IF signed THEN Tail(str) ELSE str
    IN  IF digits # <<>> /\ IsDigits(digits)
        THEN Ok(IF signed /\ str[1] = "-" THEN -DigitsValue(digits)
                ELSE DigitsValue(digits))
        ELSE Err(0)

\* strconv.ParseFloat on decimal notation: an optional sign, digits with at
\* most one point and at least one digit; the value as a fraction
ParseFloat(str) ==
    LET signed == str # <<>> /\ str[1] \in {"+", "-"}
        body   == IF signed THEN Tail(str) ELSE str
        points == {i \in 1..Len(body) : body[i] = "."}
        whole  == IF points = {} THEN body
                  ELSE SubSeq(body, 1, (CHOOSE i \in points : TRUE) - 1)
        frac   == IF points = {} THEN <<>>
                  ELSE SubSeq(body, (CHOOSE i \in points : TRUE) + 1, Len(body))
        value  == Rat(DigitsValue(whole) * (10 ^ Len(frac)) + DigitsValue(frac),
                      10 ^ Len(frac))
    IN  IF /\ Cardinality(points) <= 1
           /\ IsDigits(whole) /\ IsDigits(frac)
           /\ Len(whole) + Len(frac) > 0
        THEN Ok(IF signed /\ str[1] = "-" THEN Rat(-value[1], value[2]) ELSE value)
        ELSE Err(RatOfInt(0))

\* StatHelper.GetByID (lines 16-23): the value of the first stat with the ID
GetByID(stats, statID) ==
    LET found == {i \in 1..Len(stats) : stats[i].StatID = statID}
    IN  IF found = {} THEN [value |-> <<>>, ok |-> FALSE]
        ELSE [value |-> stats[CHOOSE i \in found : \A j \in found : i <= j].Value,
              ok |-> TRUE]

\* StatHelper.GetFloatByID (lines 25-31)
GetFloatByID(stats, statID) ==
    Eval(GetByID(stats, statID), LAMBDA got :
        IF ~got.ok THEN Err(RatOfInt(0)) ELSE ParseFloat(got.value))

\* StatHelper.GetIntByID (lines 33-39)
GetIntByID(stats, statID) ==
    Eval(GetByID(stats, statID), LAMBDA got :
        IF ~got.ok THEN Err(0) ELSE Atoi(got.value))

\* StatHelper.parseCompoundStat (lines 105-143): the characters before the
\* first slash and the characters after it, later slashes dropped
NoCompound == [made |-> 0, attempted |-> 0, err |-> "err"]
SplitCompound(value) ==
    LET slashes == {i \in 1..Len(value) : value[i] = "/"}
        first   == CHOOSE i \in slashes : \A j \in slashes : i <= j
    IN  IF slashes = {} THEN [slashFound |-> FALSE, madeStr |-> <<>>,
                              attemptedStr |-> <<>>]
        ELSE [slashFound |-> TRUE,
              madeStr |-> SubSeq(value, 1, first - 1),
              attemptedStr |->
                  SelectSeq(SubSeq(value, first + 1, Len(value)),
                            LAMBDA ch : ch # "/")]
parseCompoundStat(stats, statID) ==
    Eval(GetByID(stats, statID), LAMBDA got :
        IF ~got.ok THEN NoCompound
        ELSE Eval(SplitCompound(got.value), LAMBDA parts :
            IF ~parts.slashFound \/ parts.madeStr = <<>>
               \/ parts.attemptedStr = <<>>
            THEN NoCompound
            ELSE Eval(<<Atoi(parts.madeStr), Atoi(parts.attemptedStr)>>,
                      LAMBDA n :
                IF n[1].err # "nil" \/ n[2].err # "nil" THEN NoCompound
                ELSE [made |-> n[1].val, attempted |-> n[2].val,
                      err |-> "nil"])))

\* the shape of GetFGMFGA and GetFTMFTA (lines 46-81) for the two stat IDs of
\* a made/attempted pair
GetMadeAttempted(stats, madeID, attemptedID) ==
    Eval(<<GetIntByID(stats, madeID), GetIntByID(stats, attemptedID),
           parseCompoundStat(stats, madeID)>>, LAMBDA got :
        LET made      == got[1]
            attempted == got[2]
            compound  == got[3]
        IN  IF made.err # "nil"
            THEN IF compound.err = "nil"
                 THEN [made |-> compound.made, attempted |-> compound.attempted,
                       err |-> "nil"]
                 ELSE [made |-> 0, attempted |-> 0, err |-> "err"]
            ELSE IF attempted.err # "nil"
            THEN IF compound.err = "nil"
                 THEN [made |-> made.val, attempted |-> compound.attempted,
                       err |-> "nil"]
                 ELSE [made |-> made.val, attempted |-> 0, err |-> "err"]
            ELSE [made |-> made.val, attempted |-> attempted.val,
                  err |-> "nil"])

\* StatHelper.GetFGMFGA (lines 46-62) and StatHelper.GetFTMFTA (lines 64-81)
GetFGMFGA(stats) == GetMadeAttempted(stats, StatIDFGM, StatIDFGA)
GetFTMFTA(stats) == GetMadeAttempted(stats, StatIDFTM, StatIDFTA)

\* one of the six numbers of GetShootingStats: GetIntByID, and when that
\* fails the given part of the compound value under compoundID (lines
\* 146-154 and the five blocks after it); the variant has no fallback
Obtain_ownOnly(stats, statID, compoundID, part) == GetIntByID(stats, statID)
Obtain(stats, statID, compoundID, part) ==
    Eval(<<GetIntByID(stats, statID), parseCompoundStat(stats, compoundID)>>,
         LAMBDA got :
        IF got[1].err = "nil" THEN got[1]
        ELSE IF got[2].err = "nil" THEN Ok(got[2][part])
        ELSE got[1])

\* StatHelper.GetShootingStats (lines 145-206): the named results at the
\* return that is taken
NoShooting ==
    [fgm |-> 0, fga |-> 0, ftm |-> 0, fta |-> 0, tpm |-> 0, tpa |-> 0,
     err |-> "err"]
GetShootingStats(stats) ==
    Eval(<<Obtain(stats, StatIDFGM, StatIDFGM, "made"),
           Obtain(stats, StatIDFGA, StatIDFGM, "attempted"),
           Obtain(stats, StatIDFTM, StatIDFTM, "made"),
           Obtain(stats, StatIDFTA, StatIDFTM, "attempted"),
           Obtain(stats, StatID3PM, StatID3PM, "made"),
           Obtain(stats, StatID3PA, StatID3PM, "attempted")>>, LAMBDA got :
        LET fgm == got[1]
            fga == got[2]
            ftm == got[3]
            fta == got[4]
            tpm == got[5]
            tpa == got[6]
        IN  IF fgm.err # "nil" THEN NoShooting
            ELSE IF fga.err # "nil" THEN [NoShooting EXCEPT !.fgm = fgm.val]
            ELSE IF ftm.err # "nil"
            THEN [NoShooting EXCEPT !.fgm = fgm.val, !.fga = fga.val]
            ELSE IF fta.err # "nil"
            THEN [NoShooting EXCEPT !.fgm = fgm.val, !.fga = fga.val,
                                    !.ftm = ftm.val]
            ELSE IF tpm.err # "nil"
            THEN [NoShooting EXCEPT !.fgm = fgm.val, !.fga = fga.val,
                                    !.ftm = ftm.val, !.fta = fta.val]
            ELSE [fgm |-> fgm.val, fga |-> fga.val, ftm |-> ftm.val,
                  fta |-> fta.val, tpm |-> tpm.val, tpa |-> tpa.val,
                  err |-> "nil"])

\* the made, attempted and percentage fields of one kind of shot as
\* ParseNBAStats fills them (lines 260-274 for field goals, and 275-300),
\* with the calculation of lines 324-332
ParseShooting(stats, madeID, attemptedID, percentID) ==
    Eval(<<GetIntByID(stats, madeID), parseCompoundStat(stats, madeID),
           GetIntByID(stats, attemptedID), GetFloatByID(stats, percentID)>>,
         LAMBDA got :
        LET own       == got[1]
            compound  == got[2]
            ownAtt    == got[3]
            ownPct    == got[4]
            made      == IF own.err = "nil" THEN own.val
                         ELSE IF compound.err = "nil" THEN compound.made ELSE 0
            attempted0 == IF own.err # "nil" /\ compound.err = "nil"
                          THEN compound.attempted ELSE 0
            attempted == IF ownAtt.err = "nil" THEN ownAtt.val
                         ELSE IF compound.err = "nil" /\ attempted0 = 0
                         THEN compound.attempted ELSE attempted0
            percent0  == IF ownPct.err = "nil" THEN ownPct.val ELSE RatOfInt(0)
            percent   == IF percent0 = RatOfInt(0) /\ attempted > 0
                         THEN Rat(made, attempted) ELSE percent0
        IN  [made |-> made, attempted |-> attempted, percent |-> percent])

\* a field that ParseNBAStats sets only when GetIntByID succeeds
IntField(stats, statID) ==
    Eval(GetIntByID(stats, statID), LAMBDA got :
        IF got.err = "nil" THEN got.val ELSE 0)

\* ParseNBAStats (lines 253-335): the struct and the error
ParseNBAStats(stats) ==
    LET fg == ParseShooting(stats, StatIDFGM, StatIDFGA, StatIDFGPercent)
        ft == ParseShooting(stats, StatIDFTM, StatIDFTA, StatIDFTPercent)
        tp == ParseShooting(stats, StatID3PM, StatID3PA, StatID3PPercent)
    IN  [nbaStats |->
            [GamesPlayed |-> IntField(stats, StatIDGamesPlayed),
             FGM |-> fg.made, FGA |-> fg.attempted, FGPercent |-> fg.percent,
             FTM |-> ft.made, FTA |-> ft.attempted, FTPercent |-> ft.percent,
             ThreePointsMade |-> tp.made, ThreePointsAttempt |-> tp.attempted,
             ThreePPercent |-> tp.percent,
             Points |-> IntField(stats, StatIDPoints),
             Rebounds |-> IntField(stats, StatIDRebounds),
             OffensiveRebounds |-> IntField(stats, StatIDOffensiveRebounds),
             Assists |-> IntField(stats, StatIDAssists),
             Steals |-> IntField(stats, StatIDSteals),
             Blocks |-> IntField(stats, StatIDBlocks),
             Turnovers |-> IntField(stats, StatIDTurnovers)],
         err |-> "nil"]

\* stat values: whole numbers, compound values, a decimal fraction and
\* text that is no number; NoStat marks a stat the list does not hold
NoStat == <<"", "">>
CountValues == { <<"7">>, <<"7", "/", "1", "5">>, <<"x">> }
MadeValues == { <<"0">>, <<"7">>, <<"7", "/", "1", "5">>, <<"x">> }
AttemptedValues == { <<"0">>, <<"1", "5">>, <<"x">> }
PercentValues == { <<"0">>, <<".", "5">>, <<"x">> }
CompoundValues == { <<"9", "3", "/", "1", "8", "0">>, <<"7", "1", "/", "8", "3">>,
                    <<"9", "3">>, <<"x">> }

\* the stats list that holds, in the order of ids, the stats f gives a value
RECURSIVE StatsOf(_, _)
StatsOf(ids, f) ==
    IF ids = <<>> THEN <<>>
    ELSE (IF f[Head(ids)] = NoStat THEN <<>>
          ELSE << [StatID |-> Head(ids), Value |-> f[Head(ids)]] >>)
         \o StatsOf(Tail(ids), f)

ShootingIDs == <<StatIDFGM, StatIDFGA, StatIDFTM, StatIDFTA, StatID3PM, StatID3PA>>
SeqRange(s) == { s[i] : i \in 1..Len(s) }

\* a call of GetShootingStats on a list that holds some of the six stats
GetShootingStatsCall ==
    /\ out.op = "none"
    /\ \E f \in [SeqRange(ShootingIDs) -> CountValues \cup {NoStat}] :
         LET stats == StatsOf(ShootingIDs, f)
         IN  out' = [op |-> "GetShootingStats", args |-> <<stats>>,
                     res |-> GetShootingStats(stats)]
    /\ UNCHANGED <<projections, playerProjections, clientVars, cacheVars, syncVars>>

\* a call of GetFGMFGA or GetFTMFTA on a list of one stat
GetMadeAttemptedCall ==
    /\ out.op = "none"
    /\ \E id \in {StatIDFGM, StatIDFGA, StatIDFGMFGACompound,
                  StatIDFTM, StatIDFTA, StatIDFTMFTACompound},
          value \in CompoundValues, fn \in {"GetFGMFGA", "GetFTMFTA"} :
         LET stats == << [StatID |-> id, Value |-> value] >>
         IN  out' = [op |-> fn, args |-> <<stats>>,
                     res |-> IF fn = "GetFGMFGA" THEN GetFGMFGA(stats)
                             ELSE GetFTMFTA(stats)]
    /\ UNCHANGED <<projections, playerProjections, clientVars, cacheVars, syncVars>>

\* a call of ParseNBAStats on a list that holds the made, attempted and
\* percentage stats of one kind of shot and the points, or some of them
ShotKinds ==
    { <<StatIDFGM, StatIDFGA, StatIDFGPercent>>,
      <<StatIDFTM, StatIDFTA, StatIDFTPercent>>,
      <<StatID3PM, StatID3PA, StatID3PPercent>> }
ParseNBAStatsCall ==
    /\ out.op = "none"
    /\ \E kind \in ShotKinds :
         \E made \in MadeValues \cup {NoStat},
            attempted \in AttemptedValues \cup {NoStat},
            percent \in PercentValues \cup {NoStat},
            points \in {<<"7">>, <<"x">>, NoStat} :
           LET ids   == kind \o <<StatIDPoints>>
               f     == (kind[1] :> made) @@ (kind[2] :> attempted)
                        @@ (kind[3] :> percent) @@ (StatIDPoints :> points)
               stats == StatsOf(ids, f)
           IN  out' = [op |-> "ParseNBAStats", args |-> <<stats>>,
                       res |-> ParseNBAStats(stats)]
    /\ UNCHANGED <<projections, playerProjections, clientVars, cacheVars, syncVars>>

\* the caller has the result
StatsReturn ==
    /\ out.op \in {"GetShootingStats", "GetFGMFGA", "GetFTMFTA", "ParseNBAStats"}
    /\ out' = NoOut
    /\ UNCHANGED <<projections, playerProjections, clientVars, cacheVars, syncVars>>

(***************************************************************************)
(* Specifications                                                          *)
(***************************************************************************)
CacheIdle == cacheTable = {} /\ last = NoCall /\ hist = NoHist

\* concurrent makeRequest calls on a client without cache
Init == ClientInit /\ cacheEnabled = FALSE /\ CacheIdle /\ SyncIdle /\ TradeIdle
Next == ClientNext
Spec == Init /\ [][Next]_vars

\* the cached Get* methods as hours pass
GetInit ==
    /\ ClientInit /\ refreshToken = accessToken
    /\ cacheEnabled \in BOOLEAN /\ CacheIdle /\ SyncIdle /\ TradeIdle
GetNext == GetUserLeagues \/ GetLeagueTeams \/ GetTeamRoster \/ Tick
SpecGet == GetInit /\ [][GetNext]_vars

\* the cached Get* methods of clients that share one database and differ in
\* their tokens, as hours pass
SharedInit == GetInit
SharedNext ==
    \/ GetUserLeagues
    \/ GetLeagueTeams
    \/ GetTeamRoster
    \/ Tick
    \/ NewClient
SpecShared == SharedInit /\ [][SharedNext]_vars

\* APICache called directly as hours pass
CacheInit ==
    /\ ClientInit /\ IsEmpty(accessToken) /\ IsEmpty(refreshToken)
    /\ cacheEnabled = TRUE /\ CacheIdle /\ SyncIdle /\ TradeIdle
CacheNext == CacheSet \/ CacheGet \/ CacheDelete \/ CacheCleanExpired \/ Tick
SpecCache == CacheInit /\ [][CacheNext]_vars

\* SyncTeamsAndRosters called up to MaxSyncs times, one call at a time, on
\* a client without cache
SyncInit ==
    /\ ClientInit /\ refreshToken = accessToken
    /\ cacheEnabled = FALSE /\ CacheIdle /\ SyncIdle /\ TradeIdle
SyncNext ==
    \/ SyncStart
    \/ SyncFetchTeams
    \/ SyncTeamCreate
    \/ SyncFetchRoster
    \/ SyncRosterEntry
    \/ SyncFinish
    \/ SyncReturn
SpecSync == SyncInit /\ [][SyncNext]_vars

\* ImportLeague called up to MaxSyncs times, one call at a time, on a client
\* without cache
ImportInit == SyncInit
ImportNext ==
    \/ ImportStart
    \/ ImportLookup
    \/ ImportFetchLeagues
    \/ ImportCreate
    \/ SyncFetchTeams
    \/ SyncTeamCreate
    \/ SyncFetchRoster
    \/ SyncRosterEntry
    \/ SyncFinish
    \/ ImportSyncReturn
    \/ ImportReturn
SpecImport == ImportInit /\ [][ImportNext]_vars

\* the trade code called on a league whose projections are any of FPGs
TradeInit ==
    /\ ClientInit /\ IsEmpty(accessToken) /\ IsEmpty(refreshToken)
    /\ cacheEnabled = FALSE /\ CacheIdle /\ SyncIdle
    /\ projections \in [PlayerIds -> FPGs]
    /\ out = NoOut
    /\ playerProjections = {}
TradeNext ==
    \/ IsGoodFit
    \/ CalculateFairnessScore
    \/ EvaluateTradeCall
    \/ CalculateComplementaryScore
    \/ GenerateSuggestions
    \/ TradeReturn
SpecTrade == TradeInit /\ [][TradeNext]_vars

\* the analysis and valuation functions called on groups of values
AnalysisInit ==
    /\ ClientInit /\ IsEmpty(accessToken) /\ IsEmpty(refreshToken)
    /\ cacheEnabled = FALSE /\ CacheIdle /\ SyncIdle /\ TradeIdle
AnalysisNext ==
    \/ CalculateZScore
    \/ CalculateZScores
    \/ AnalyzeTeam
    \/ RankPlayers
    \/ AnalysisReturn
SpecAnalysis == AnalysisInit /\ [][AnalysisNext]_vars

\* the stat helper called on lists of stats
StatsInit ==
    /\ ClientInit /\ IsEmpty(accessToken) /\ IsEmpty(refreshToken)
    /\ cacheEnabled = FALSE /\ CacheIdle /\ SyncIdle /\ TradeIdle
StatsNext ==
    \/ GetShootingStatsCall
    \/ GetMadeAttemptedCall
    \/ ParseNBAStatsCall
    \/ StatsReturn
SpecStats == StatsInit /\ [][StatsNext]_vars

\* CalculateAllPlayerValues called again and again on two leagues
ValuationInit == AnalysisInit
ValuationNext == CalculateAllPlayerValuesCall \/ ValuationReturn
SpecValuation == ValuationInit /\ [][ValuationNext]_vars

(***************************************************************************)
(* Claims about the sync                                                   *)
(***************************************************************************)
\* C5: errors are returned to the caller: whenever a step of the operation
\* fails (API fetch, cache write, database read or write), the operation
\* returns a non-nil error instead of silently continuing.
C5_FailedStepReturnsError ==
    sync.pc = "done" /\ sync.failed => sync.err = "err"

\* C8: every roster row written by SyncTeamsAndRosters references a team
\* row created earlier in the same sync and a player id that exists in the
\* players table; an entry whose Yahoo player key is unknown locally is
\* skipped and never stored.
C8_RosterRowsReferenceTeamAndPlayer ==
    \A r \in dbRosters :
        /\ \E t \in dbTeams : t.id = r.team /\ t.sync = r.sync
        /\ \E k \in DOMAIN Players : r.player = Players[k]
        /\ r.key \in DOMAIN Players
        /\ r.player = Players[r.key]

C8_Witness ==
    /\ sync.pc = "done" /\ sync.err = "nil" /\ sync.skipped
    /\ sync.no >= 2
    /\ \E r \in dbRosters : r.sync = sync.no
    /\ \E t \in dbTeams : t.sync < sync.no

(***************************************************************************)
(* Claims about the trade code                                             *)
(***************************************************************************)
\* the difference of a and b is within 15% of their non-zero average
InBand(a, b) == a + b # 0 /\ 200 * Abs(a - b) <= 15 * Abs(a + b)

\* C9: isGoodFit accepts a one-for-one pair exactly when the two players'
\* average FPG is non-zero and the difference of their FPG is within 15%
\* of that average, bounds included; GenerateSuggestions never emits a
\* suggestion for a pair outside that band.
C9_SuggestionsWithinBand ==
    /\ out.op = "isGoodFit" =>
          (out.res <=> InBand(out.args[1].FPG, out.args[2].FPG))
    /\ out.op = "GenerateSuggestions" =>
          \A i \in 1..Len(out.res.suggestions) :
              LET s == out.res.suggestions[i]
              IN  /\ s.TeamAGives.FPG = projections[s.TeamAGives.PlayerID]
                  /\ s.TeamBGives.FPG = projections[s.TeamBGives.PlayerID]
                  /\ InBand(s.TeamAGives.FPG, s.TeamBGives.FPG)

C9_Witness ==
    /\ out.op = "GenerateSuggestions"
    /\ \E i \in 1..Len(out.res.suggestions) :
          LET s == out.res.suggestions[i]
          IN  /\ s.TeamAGives.FPG # s.TeamBGives.FPG
              /\ 200 * Abs(s.TeamAGives.FPG - s.TeamBGives.FPG)
                    = 15 * Abs(s.TeamAGives.FPG + s.TeamBGives.FPG)
    /\ \E a \in RosterRows(UserTeam), b \in RosterRows(OtherTeam) :
          ~InBand(a.FPG, b.FPG) /\ a.FPG + b.FPG # 0

\* C10: calculateFairnessScore returns 100 whenever the summed FPG of the
\* two sides are equal, including when both sums are 0 or both lists are
\* empty.
C10_EqualSumsScore100 ==
    out.op = "calculateFairnessScore"
        /\ sumFPG(out.args[1]) = sumFPG(out.args[2]) =>
    out.res = RatOfInt(100)

C10_Witness ==
    /\ out.op = "calculateFairnessScore"
    /\ Len(out.args[1]) = 2 /\ Len(out.args[2]) = 2
    /\ sumFPG(out.args[1]) = sumFPG(out.args[2])
    /\ out.args[1][1].FPG # out.args[2][1].FPG
    /\ out.res = RatOfInt(100)

\* C11: for any two player lists, whatever the signs of their FPG sums,
\* calculateFairnessScore returns a value from 0 to 100, and EvaluateTrade
\* marks the trade fair exactly when the score of the two lists is at least
\* 75.
C11_ScoreInRangeFairFrom75 ==
    /\ out.op = "calculateFairnessScore" =>
         /\ ~RatLT(out.res, RatOfInt(0))
         /\ ~RatLT(RatOfInt(100), out.res)
    /\ (out.op = "EvaluateTrade" /\ out.res.err = "nil") =>
         LET score == calculateFairnessScore(ProjectionsOf(out.args[1]),
                                             ProjectionsOf(out.args[2]))
         IN  /\ out.res.FairnessScore = score
             /\ ~RatLT(score, RatOfInt(0))
             /\ ~RatLT(RatOfInt(100), score)
             /\ out.res.IsFair <=> (score[1] >= 75 * score[2])

\* a score was computed for two non-empty lists whose sums are negative on
\* one side and positive on the other with a negative total
C11_Witness ==
    /\ out.op = "calculateFairnessScore"
    /\ Len(out.args[1]) > 0 /\ Len(out.args[2]) > 0
    /\ sumFPG(out.args[1]) < 0
    /\ sumFPG(out.args[2]) > 0
    /\ sumFPG(out.args[1]) + sumFPG(out.args[2]) < 0

\* C12: for a group whose values are all equal the z-score of every member
\* is 0: calculateZScore returns 0 for a member of such a group and for an
\* empty group, and calculateZScores on freshly computed player values with
\* equal FPG leaves every ZScore at 0.
C12_EqualGroupZScoreZero ==
    /\ (/\ out.op = "calculateZScore"
        /\ \A i, j \in 1..Len(out.args[2]) : out.args[2][i] = out.args[2][j])
         => out.res = RatOfInt(0)
    /\ (/\ out.op = "calculateZScores"
        /\ \A i, j \in 1..Len(out.args[1]) :
             out.args[1][i].FPG = out.args[1][j].FPG)
         => \A i \in 1..Len(out.res) : out.res[i].ZScore = RatOfInt(0)

\* C13: the ranking does not depend on the run: for the same team totals
\* and league totals every run of analyzeTeam returns the same weak
\* categories and the same strong categories in the same order, also when
\* categories have equal z-scores.
C13_AnalyzeTeamSameOnEveryRun ==
    out.op = "analyzeTeam" =>
        \A r \in analyzeTeam(out.args[1], out.args[2], out.args[3]) :
            /\ r.WeakCategories = out.res.WeakCategories
            /\ r.StrongCategories = out.res.StrongCategories

\* the categories named in a list of category scores
CategoriesIn(list) == { list[k].Category : k \in DOMAIN list }
\* the index of TO in CategoryNames
TOIndex == CHOOSE c \in DOMAIN CategoryNames : CategoryNames[c] = "TO"

\* C28: analyzeTeam returns z-scores for exactly the nine categories, the
\* three lowest-scoring as weak and the three highest-scoring as strong,
\* the strong ones best first; no category is both weak and strong, no weak
\* category has a higher z-score than a strong one, and the TO score is the
\* negated raw z-score of the team's turnovers.
C28_WeakLowestStrongHighest ==
    out.op = "analyzeTeam" =>
        LET z      == out.res.CategoryScores
            weak   == out.res.WeakCategories
            strong == out.res.StrongCategories
            rawTO  == calculateZScore(out.args[2][TOIndex],
                          [i \in 1..Len(out.args[3]) |->
                              out.args[3][i].Totals[TOIndex]])
            zOf(name) == z[CHOOSE c \in DOMAIN CategoryNames :
                                CategoryNames[c] = name]
        IN  /\ DOMAIN z = DOMAIN CategoryNames /\ Len(CategoryNames) = 9
            /\ Len(weak) = 3 /\ Cardinality(CategoriesIn(weak)) = 3
            /\ Len(strong) = 3 /\ Cardinality(CategoriesIn(strong)) = 3
            /\ \A k \in 1..3 :
                 /\ weak[k].ZScore = zOf(weak[k].Category)
                 /\ strong[k].ZScore = zOf(strong[k].Category)
            /\ \A c \in DOMAIN CategoryNames :
                 /\ CategoryNames[c] \notin CategoriesIn(weak) =>
                      \A k \in 1..3 : ~RatLT(z[c], weak[k].ZScore)
                 /\ CategoryNames[c] \notin CategoriesIn(strong) =>
                      \A k \in 1..3 : ~RatLT(strong[k].ZScore, z[c])
            /\ \A k \in 1..2 : ~RatLT(strong[k].ZScore, strong[k + 1].ZScore)
            /\ CategoriesIn(weak) \cap CategoriesIn(strong) = {}
            /\ \A i, j \in 1..3 : ~RatLT(strong[j].ZScore, weak[i].ZScore)
            /\ RatAdd(z[TOIndex], rawTO) = RatOfInt(0)

\* the team's turnovers are above the league's mean, TO is among its weak
\* categories, and a category outside the weak ones scores as low as the
\* last weak one
C28_Witness ==
    /\ out.op = "analyzeTeam"
    /\ RatLT(out.res.CategoryScores[TOIndex], RatOfInt(0))
    /\ "TO" \in CategoriesIn(out.res.WeakCategories)
    /\ \E c \in DOMAIN CategoryNames :
          /\ CategoryNames[c] \notin CategoriesIn(out.res.WeakCategories)
          /\ out.res.CategoryScores[c] = out.res.WeakCategories[3].ZScore

\* C29: rankPlayers gives each player the rank 1 + the number of players
\* with strictly greater FPG: ranks lie in 1..n, a player with the highest
\* FPG has rank 1, players with equal FPG have equal ranks, and a player
\* with a higher FPG never has a worse rank than one with a lower FPG.
C29_RankCountsStrictlyGreater ==
    out.op = "rankPlayers" =>
        LET before == out.args[1]
            after  == out.res
            n      == Len(before)
        IN  /\ Len(after) = n
            /\ \A i \in 1..n :
                 /\ after[i].PlayerID = before[i].PlayerID
                 /\ after[i].FPG = before[i].FPG
                 /\ after[i].OverallRank =
                       1 + Cardinality({ j \in 1..n :
                                          RatLT(before[i].FPG, before[j].FPG) })
                 /\ after[i].OverallRank \in 1..n
                 /\ (\A j \in 1..n : ~RatLT(before[i].FPG, before[j].FPG))
                       => after[i].OverallRank = 1
                 /\ \A j \in 1..n :
                      /\ before[i].FPG = before[j].FPG
                            => after[i].OverallRank = after[j].OverallRank
                      /\ RatLT(before[j].FPG, before[i].FPG)
                            => after[i].OverallRank <= after[j].OverallRank

\* two players share the highest FPG and a third one is below them
C29_Witness ==
    /\ out.op = "rankPlayers"
    /\ Len(out.res) = 3
    /\ \E i, j, k \in 1..3 :
          /\ i # j
          /\ out.res[i].OverallRank = 1 /\ out.res[j].OverallRank = 1
          /\ out.res[k].OverallRank = 3

\* a stat is missing when it can be obtained neither under its own stat ID
\* nor from the compound value; otherwise Obtained is its number
Missing(stats, statID, compoundID) ==
    /\ GetIntByID(stats, statID).err # "nil"
    /\ parseCompoundStat(stats, compoundID).err # "nil"
Obtained(stats, statID, compoundID, part) ==
    IF GetIntByID(stats, statID).err = "nil" THEN GetIntByID(stats, statID).val
    ELSE parseCompoundStat(stats, compoundID)[part]

ShotFields ==
    { [percentID |-> StatIDFGPercent, made |-> "FGM", attempted |-> "FGA",
       percent |-> "FGPercent"],
      [percentID |-> StatIDFTPercent, made |-> "FTM", attempted |-> "FTA",
       percent |-> "FTPercent"],
      [percentID |-> StatID3PPercent, made |-> "ThreePointsMade",
       attempted |-> "ThreePointsAttempt", percent |-> "ThreePPercent"] }

\* C15: ParseNBAStats uses the percentage supplied by the API whenever the
\* percentage stat is present and parseable, computes made/attempted when
\* that stat is missing and attempts are greater than 0, and yields 0 when
\* attempts are 0 and no percentage is supplied.
C15_SuppliedPercentageWins ==
    out.op = "ParseNBAStats" =>
        \A k \in ShotFields :
            LET stats    == out.args[1]
                nbaStats == out.res.nbaStats
                supplied == GetByID(stats, k.percentID).ok
            IN  /\ GetFloatByID(stats, k.percentID).err = "nil" =>
                     nbaStats[k.percent] = GetFloatByID(stats, k.percentID).val
                /\ (~supplied /\ nbaStats[k.attempted] > 0) =>
                     nbaStats[k.percent] =
                         Rat(nbaStats[k.made], nbaStats[k.attempted])
                /\ (~supplied /\ nbaStats[k.attempted] = 0) =>
                     nbaStats[k.percent] = RatOfInt(0)

\* C16: ParseNBAStats gives a zero field and a nil error for a stat that is
\* absent, and returns a non-nil error when a stat is present with a value
\* that cannot be parsed.
C16_UnparseableStatIsError ==
    out.op = "ParseNBAStats" =>
        LET stats  == out.args[1]
            points == GetByID(stats, StatIDPoints)
        IN  /\ ~points.ok => out.res.nbaStats.Points = 0
            /\ (\A i \in 1..Len(stats) :
                    \/ Atoi(stats[i].Value).err = "nil"
                    \/ ParseFloat(stats[i].Value).err = "nil"
                    \/ parseCompoundStat(stats, stats[i].StatID).err = "nil")
                 => out.res.err = "nil"
            /\ (points.ok /\ Atoi(points.value).err # "nil")
                 => out.res.err # "nil"

\* C17: GetFGMFGA and GetFTMFTA return the made and attempted counts with a
\* nil error when the stats hold only the alternate compound stat
\* (StatIDFGMFGACompound, StatIDFTMFTACompound) with a value made/attempted:
\* 93/180 gives (93, 180).
C17_AlternateCompoundStat ==
    /\ (/\ out.op = "GetFGMFGA"
        /\ out.args[1] = << [StatID |-> StatIDFGMFGACompound,
                             Value |-> <<"9", "3", "/", "1", "8", "0">>] >>)
         => out.res = [made |-> 93, attempted |-> 180, err |-> "nil"]
    /\ (/\ out.op = "GetFTMFTA"
        /\ out.args[1] = << [StatID |-> StatIDFTMFTACompound,
                             Value |-> <<"7", "1", "/", "8", "3">>] >>)
         => out.res = [made |-> 71, attempted |-> 83, err |-> "nil"]

\* C18: for every suggestion the fairness score and the benefit texts
\* describe the trade the suggestion lists: TeamABenefit is computed from
\* team A's totals with the player in TeamAGives removed and the player in
\* TeamBGives added, TeamBBenefit from team B's totals with the player in
\* TeamBGives removed and the player in TeamAGives added.
C18_BenefitsDescribeListedTrade ==
    (out.op = "GenerateSuggestions" /\ out.res.err = "nil") =>
        \A i \in 1..Len(out.res.suggestions) :
            LET s      == out.res.suggestions[i]
                aGives == ProjectionsOf(<<s.TeamAGives.PlayerID>>)
                bGives == ProjectionsOf(<<s.TeamBGives.PlayerID>>)
            IN  /\ s.FairnessScore = calculateFairnessScore(aGives, bGives)
                /\ s.TeamABenefit =
                     formatBenefit(calculateTeamImpact(UserTeam, bGives, aGives))
                /\ s.TeamBBenefit =
                     formatBenefit(calculateTeamImpact(OtherTeam, aGives, bGives))

(***************************************************************************)
(* Claims about ImportLeague                                               *)
(***************************************************************************)
\* the rows in the three tables that the running ImportLeague call created
CreatedByImport ==
    [ leagues |-> { l \in dbLeagues : l.imp = imp.no },
      teams   |-> { t \in dbTeams : t.sync = imp.no },
      rosters |-> { r \in dbRosters : r.sync = imp.no } ]

\* C19: ImportLeague is all-or-nothing: when it returns an error (league
\* already imported, league not among the user's leagues, or a failure while
\* saving the league or syncing a team or roster), the database holds no
\* league, team or roster row created by that call.
C19_FailedImportLeavesNoRows ==
    imp.pc = "done" /\ imp.err # "nil" =>
        /\ CreatedByImport.leagues = {}
        /\ CreatedByImport.teams = {}
        /\ CreatedByImport.rosters = {}

(***************************************************************************)
(* Claims about the valuation                                              *)
(***************************************************************************)
\* the rows of a league in a player_projections table
RowsOfLeague(tbl, leagueID) == { r \in tbl : r.league_id = leagueID }

\* C20: a league's projections are replaced atomically: after
\* CalculateAllPlayerValues returns, player_projections holds for that
\* league exactly the rows computed in this run, one per active player, when
\* the call succeeded, and is exactly as before the call when it returned an
\* error; the rows of the other leagues are as before in both cases.
C20_ProjectionsReplacedAtomically ==
    out.op = "CalculateAllPlayerValues" /\ out.res.err # "panic" =>
        LET leagueID == out.args[1]
            active   == 1..out.args[2]
            before   == out.args[3]
            rows     == RowsOfLeague(playerProjections, leagueID)
        IN  /\ \A l \in LeagueIDs \ {leagueID} :
                 RowsOfLeague(playerProjections, l) = RowsOfLeague(before, l)
            /\ IF out.res.err = "nil"
               THEN /\ rows = out.res.rows
                    /\ { r.player_id : r \in rows } = active
                    /\ Cardinality(rows) = Cardinality(active)
               ELSE playerProjections = before

\* C30: the valuation pipeline handles an empty player list:
\* calculateZScores leaves it as it is and returns, calculateStats gives
\* mean 0 and standard deviation 0, and CalculateAllPlayerValues for a
\* league with no active players finishes without a panic.
C30_EmptyPlayerListHandled ==
    /\ calculateZScores(<<>>) = <<>>
    /\ calculateStats(<<>>) = [mean |-> RatOfInt(0), stdDev |-> RatOfInt(0)]
    /\ out.op = "CalculateAllPlayerValues" /\ out.args[2] = 0 =>
          out.res.err # "panic"

(***************************************************************************)
(* Claims about GenerateSuggestions                                        *)
(***************************************************************************)
\* C21: for every limit, zero and negative values included,
\* GenerateSuggestions returns without panicking, and the list it returns
\* has at most limit suggestions (none for a limit below 1) in
\* non-increasing FairnessScore order, each a one-for-one trade of a player
\* of the given team for a player of the other team with a FairnessScore of
\* at least 75.
C21_AnyLimitReturnsSortedFairList ==
    out.op = "GenerateSuggestions" =>
        LET limit == out.args[2]
            list  == out.res.suggestions
        IN  /\ out.res.err # "panic"
            /\ Len(list) <= (IF limit < 0 THEN 0 ELSE limit)
            /\ \A i \in 1..Len(list) :
                 /\ list[i].TeamAGives \in RosterRows(out.args[1])
                 /\ list[i].TeamBGives \in RosterRows(OtherTeam)
                 /\ ~RatLT(list[i].FairnessScore, RatOfInt(75))
                 /\ \A j \in i..Len(list) :
                      ~RatLT(list[i].FairnessScore, list[j].FairnessScore)

\* the number of entries of list that are entries of among
CountAmong(list, among) ==
    Cardinality({ i \in DOMAIN list : \E j \in DOMAIN among : among[j] = list[i] })

\* C27: calculateComplementaryScore(A, B) is the number of B's weak
\* categories that are among A's strong categories plus the number of B's
\* strong categories that are among A's weak categories, 0 for empty lists;
\* GenerateSuggestions has suggestions with another team only when that
\* score of the two teams' analyses is at least 2.
C27_ComplementaryScoreGatesTeams ==
    /\ out.op = "calculateComplementaryScore" =>
          LET A == out.args[1]
              B == out.args[2]
          IN  /\ out.res = CountAmong(B.WeakCategories, A.StrongCategories)
                              + CountAmong(B.StrongCategories, A.WeakCategories)
              /\ (A = Analysis(<<>>, <<>>) \/ B = Analysis(<<>>, <<>>))
                    => out.res = 0
    /\ out.op = "GenerateSuggestions" /\ out.res.suggestions # <<>> =>
          LET A == out.args[3]
              B == out.args[4]
          IN  CountAmong(B.WeakCategories, A.StrongCategories)
                + CountAmong(B.StrongCategories, A.WeakCategories) >= 2

\* a team whose score is exactly 2, one category counted in each direction,
\* has given a suggestion
C27_Witness ==
    /\ out.op = "GenerateSuggestions"
    /\ out.res.suggestions # <<>>
    /\ calculateComplementaryScore(out.args[3], out.args[4]) = 2
    /\ CountAmong(out.args[4].WeakCategories, out.args[3].StrongCategories) = 1
    /\ CountAmong(out.args[4].StrongCategories, out.args[3].WeakCategories) = 1

(***************************************************************************)
(* Claims about token refreshes                                            *)
(***************************************************************************)
\* p is inside refreshAccessToken before any store, or inside a refresh that
\* returns an error
BeforeStoreOrFailed(p) ==
    pc[p] = "post" \/ (pc[p] = "unlock" /\ loc[p].rerr)

\* C22: a failed token refresh changes nothing: from the Lock of a
\* refreshAccessToken call that fails (no refresh token, or a failed POST)
\* to its return no step changes the access token or the refresh token, and
\* makeRequest then returns an error having sent one GET only; a refresh
\* that succeeds replaces the refresh token only by a non-empty one.
C22_FailedRefreshChangesNothing ==
    [][ \A p \in Procs :
          /\ (pc[p] = "lock" /\ pc'[p] # "lock") \/ BeforeStoreOrFailed(p) =>
                accessToken' = accessToken /\ refreshToken' = refreshToken
          /\ pc[p] \in {"lock", "post"} /\ pc'[p] = "unlock" => loc'[p].rerr
          /\ pc[p] = "unlock" /\ loc[p].rerr /\ pc'[p] # "unlock" =>
                /\ pc'[p] = "done"
                /\ loc'[p].result = "err"
                /\ loc'[p].gets = 1
          /\ pc[p] = "store_refresh" /\ refreshToken' # refreshToken =>
                refreshToken' # 0 ]_vars

\* a call whose refresh failed at the token endpoint has returned with an
\* error after one GET, and both tokens are still set
C22_Witness ==
    \E p \in Procs :
        /\ Returned(p) /\ loc[p].rerr /\ loc[p].posts = 1
        /\ loc[p].result = "err" /\ loc[p].gets = 1
        /\ accessToken # 0 /\ refreshToken # 0

\* C23: a client that starts with a non-empty access token has a non-empty
\* access token after any sequence of requests and token refreshes, so that
\* no makeRequest of it is rejected as 'access token not configured': no
\* step takes the client from a non-empty access token to an empty one.
C23_AccessTokenStaysNonEmpty ==
    [][ ~IsEmpty(accessToken) => ~IsEmpty(accessToken') ]_vars

\* C24: in every interleaving of concurrent requests that each receive 401
\* token_expired, each request performs its own refresh with its own call of
\* the token endpoint (refreshes are not coalesced), and the retry of each
\* carries the access token that the most recently completed refresh had
\* stored when the retry was built.
C24_OwnRefreshRetryCarriesLatestToken ==
    [][ \A p \in Procs :
          /\ pc[p] = "send" /\ loc'[p].first = "401exp" =>
                pc'[p] = "lock" /\ loc'[p].refreshes = 1
          /\ pc[p] = "post" /\ pc'[p] # "post" =>
                loc[p].posts = 0 /\ loc'[p].posts = 1
          /\ pc[p] = "retry_build" /\ pc'[p] = "retry_send" =>
                loc'[p].hdr = accessToken ]_vars

(***************************************************************************)
(* Claims about the end of a sync                                          *)
(***************************************************************************)
\* the elements of a sequence
Range(seq) == { seq[i] : i \in DOMAIN seq }

\* the rows of the running sync hold every team of a fetched league and,
\* for each of them, every locally known player of a fetched roster
SyncStoredEverything ==
    LET teams == { t \in dbTeams : t.sync = sync.no }
    IN  /\ \E v \in Values : { t.key : t \in teams } = Range(TeamsOf(v))
        /\ \A t \in teams :
             \E w \in Values :
               { r.key : r \in { x \in dbRosters :
                                 x.sync = sync.no /\ x.team = t.id } }
               = Range(RosterOf(w)) \cap DOMAIN Players

\* C25: SyncTeamsAndRosters records success only at the end: the update of
\* last_synced_at and the 'success' sync_history row are reached only when
\* no step of the team loop failed, and are written only when every team of
\* the league is saved and every team's roster is fetched and stored.
C25_SuccessRecordedOnlyAfterEverything ==
    /\ sync.pc = "finish" => ~sync.failed
    /\ sync.no > 0 /\ (lastSyncedAt = sync.no \/ sync.no \in syncHistory) =>
          /\ sync.pc \in {"done", "idle"}
          /\ SyncStoredEverything

(***************************************************************************)
(* Claims about cache hits                                                 *)
(***************************************************************************)
\* C26: on a cache hit the result does not depend on the credentials: with
\* caching enabled and a non-expired entry for the key that the cache read
\* returns, GetUserLeagues, GetLeagueTeams and GetTeamRoster return the
\* cached value whatever the client's access token is, the empty one
\* included, send no request and leave the entry as it is: the answer is a
\* function of the cache alone.
C26_CacheHitIgnoresCredentials ==
    cacheEnabled /\ last.op # "none" /\ last.get # "dberr" =>
        LET valid == { r \in last.pre : ~Expired(r) }
        IN  valid # {} =>
              /\ last.get = "nil"
              /\ last.http = 0
              /\ \A r \in valid : last.res = JSONUnmarshal(r.value)
              /\ RowsOf(cacheTable, last.key) = last.pre

\* a client without an access token got the value another client cached
C26_Witness ==
    /\ cacheEnabled /\ IsEmpty(accessToken)
    /\ last.op = "GetTeamRoster" /\ last.get = "nil"
    /\ last.http = 0 /\ last.res = MaxVal

============================================================================
